---- MODULE Spec2Model ----
(***************************************************************************)
(* State-machine model of the bocchi fuzzer: the fuzz worker of            *)
(* fuzz_thread.rs driving Fuzzer (fuzzing.rs) over VectorLibrary           *)
(* (sample_library.rs), the breakpoint tracer of execution.rs and the      *)
(* crash-name generator.                                                   *)
(***************************************************************************)
EXTENDS Integers, Sequences, FiniteSets, TLC

(***************************************************************************)
(* Bounds of the model.                                                    *)
(***************************************************************************)
\* largest number of seeds handed to the seed loop
MaxSeeds == 2
\* executions of the target (seeds and loop iterations together)
MaxExec == 3
\* tracer events handled in one FunctionTracer::run
MaxEvents == 4
\* runs of the tracer
MaxRuns == 2

\* folded buffers of the samples the worker can hold: the empty sample and
\* two different samples of one byte
Samples == {<<>>, <<0>>, <<1>>}

None == <<>>
Some(x) == <<x>>

(***************************************************************************)
(* execution.rs: ExecResult, Hits, RunTrace.                               *)
(***************************************************************************)
Code(c) == [kind |-> "Code", code |-> c]
Signal == [kind |-> "Signal", code |-> 0]

\* faulty variant of inc: Many wraps around to Once
HitsMut(h) ==
    CASE h = "Once" -> "Twice"
      [] h = "Twice" -> "Many"
      [] h = "Many" -> "Once"

\* Hits::inc
inc(h) ==
    CASE h = "Once" -> "Twice"
      [] h = "Twice" -> "Many"
      [] h = "Many" -> "Many"

RunTrace(r, t) == [result |-> r, trajectory |-> t]

EmptyTrajectory == [k \in {} |-> "Once"]

\* fingerprints the target can produce in the worker model
Traces ==
    { RunTrace(Code(0), (16 :> "Once")),
      RunTrace(Code(1), (16 :> "Once")),
      RunTrace(Signal, (16 :> "Once")) }

(***************************************************************************)
(* fuzz_thread.rs: get_unique_name.                                        *)
(***************************************************************************)
HexDigits == <<"0", "1", "2", "3", "4", "5", "6", "7",
               "8", "9", "a", "b", "c", "d", "e", "f">>

\* format!("{:x}", b) for a u8: lowercase hex, no padding
FormatHex(b) ==
    IF b < 16 THEN <<HexDigits[b + 1]>>
    ELSE <<HexDigits[(b \div 16) + 1], HexDigits[(b % 16) + 1]>>

RECURSIVE ConcatMap(_)
ConcatMap(bytes) ==
    IF bytes = <<>> THEN <<>>
    ELSE FormatHex(Head(bytes)) \o ConcatMap(Tail(bytes))

\* (0..6).map(|_| format!("{:x}", rng.gen::<u8>())).collect()
get_unique_name(bytes) == ConcatMap(bytes)

\* values of rng.gen::<u8>() explored by the name model
RandBytes == {0, 9, 15, 16, 171, 255}

\* six-byte draws the worker's rng makes in the worker model
NameDraws ==
    { <<1, 35, 170, 170, 170, 170>>,
      <<18, 3, 170, 170, 170, 170>>,
      <<222, 173, 190, 239, 16, 32>> }

VARIABLES
    \* VectorLibrary: keys and items, parallel vectors
    library,
    \* LibraryEntry.unique_name of each entry, parallel to library.items
    unique_names,
    \* State counters
    state,
    \* crash files in output.directory: name -> contents
    files,
    \* lines of fuzzing.log
    log,
    \* FUZZER_RUNNNIG
    running,
    \* position of the fuzz worker
    wpc,
    \* position of the UI thread
    upc,
    \* the library mutex and the state mutex: "none" when free, "worker" or
    \* "ui" for the thread holding the guard, "poisoned" once a thread has
    \* panicked while it held the guard (std::sync::Mutex: the guard is
    \* dropped by the unwinding and every later lock().unwrap() panics)
    libLock, stateLock,
    \* number of seeds not yet given to put_seed
    seeds,
    \* sample and trace in flight inside put_seed / run_once
    cur,
    \* RunResult returned by the last put_in_library
    result,
    \* every (sample, trace) classified so far, in order
    history,
    \* number of successful save_crash calls
    writes,
    \* name model: the six random bytes, the name built from them
    nameBytes, name,
    \* tracer model
    tpc, base_offset, breakpoints, trajectory, traceResult, rip, events,
    hitCount, runs, lastEvent,
    \* sample model: the Sample, the Sample the last operation was given, the
    \* last operation and the number of operations so far
    gsample, gbefore, lastOp, nops,
    \* generator and mutator model: the parsed grammar, the input mode, the
    \* position of the fuzzer, the Sample it holds, the Sample given to
    \* mutate_sample, the mutators applied and the loop rounds of the
    \* current call, the calls so far, the last generation or byte patch
    grammar, mode, cpc, held, minput, applied, tries, nmut, lastGen

workerVars == <<library, unique_names, state, files, log, running, wpc, upc,
                libLock, stateLock, seeds, cur, result, history, writes>>
nameVars == <<nameBytes, name>>
tracerVars == <<tpc, base_offset, breakpoints, trajectory, traceResult, rip,
                events, hitCount, runs, lastEvent>>
sampleVars == <<gsample, gbefore, lastOp, nops>>
genVars == <<grammar, mode, cpc, held, minput, applied, tries, nmut, lastGen>>
vars == <<workerVars, nameVars, tracerVars, sampleVars, genVars>>

(***************************************************************************)
(* sample.rs: size score of a sample.                                      *)
(***************************************************************************)
\* Sample::get_size_score
get_size_score(sample) == Len(sample)

(***************************************************************************)
(* sample.rs: TreeNode, fold, Patch and apply_patch.                       *)
(***************************************************************************)
\* TreeNodeItem::Data
Data(bytes) == [kind |-> "Data", data |-> bytes]

\* TreeNodeItem::ProductionApplication
ProductionApplication(rule, variant, items) ==
    [kind |-> "ProductionApplication", rule_name |-> rule,
     production_variant |-> variant, items |-> items]

TreeNode(start, size, item) == [start |-> start, size |-> size, item |-> item]

\* p.items.iter().map(|item| item.size).sum()
RECURSIVE sum_sizes(_)
sum_sizes(items) ==
    IF items = <<>> THEN 0 ELSE Head(items).size + sum_sizes(Tail(items))

\* TreeNodeItem::find_tree_span
find_tree_span(item) ==
    IF item.kind = "Data" THEN Len(item.data) ELSE sum_sizes(item.items)

\* impl From<TreeNodeItem> for TreeNode
FromItem(item) == TreeNode(0, find_tree_span(item), item)

\* TreeNode::fold: the node with its indices set, and the buffer after it
RECURSIVE fold(_, _)
RECURSIVE fold_items(_, _, _)
\* for item in &mut pa.items { item.fold(buffer) }, from the i-th item on
fold_items(items, i, buffer) ==
    IF i > Len(items) THEN [items |-> items, buffer |-> buffer]
    ELSE LET r == fold(items[i], buffer)
         IN  fold_items([items EXCEPT ![i] = r.node], i + 1, r.buffer)

fold(node, buffer) ==
    LET before == Len(buffer)
        r == IF node.item.kind = "ProductionApplication"
             THEN LET f == fold_items(node.item.items, 1, buffer)
                  IN  [item |-> [node.item EXCEPT !.items = f.items],
                       buffer |-> f.buffer]
             ELSE [item |-> node.item, buffer |-> buffer \o node.item.data]
    IN  [node |-> TreeNode(before, Len(r.buffer) - before, r.item),
         buffer |-> r.buffer]

GrammarSample(tree, folded) == [tree |-> tree, folded |-> folded]

\* TreeNode::fold_into_sample
fold_into_sample(tree) ==
    LET r == fold(tree, <<>>) IN GrammarSample(r.node, r.buffer)

\* Patch with PatchKind::Replacement, Erasure and Insertion
Replacement(position, content) ==
    [position |-> position, kind |-> "Replacement", content |-> content, size |-> 0]
Erasure(position, size) ==
    [position |-> position, kind |-> "Erasure", content |-> <<>>, size |-> size]
Insertion(position, content) ==
    [position |-> position, kind |-> "Insertion", content |-> content, size |-> 0]
\* Patch::Xor of mutation/binary_level.rs
Xor(position, content) ==
    [position |-> position, kind |-> "Xor", content |-> content, size |-> 0]

Max(a, b) == IF a >= b THEN a ELSE b
Min(a, b) == IF a <= b THEN a ELSE b

\* faulty variant of intersect_intervals: the first position is left out
intersect_intervalsSkip(first, second) ==
    IF first[1] > second[2] \/ second[1] > first[2] THEN None
    ELSE LET lo == Max(first[1], second[1]) + 1
             hi == Min(first[2], second[2])
         IN  IF lo >= hi THEN None ELSE Some(<<lo, hi>>)

\* intersect_intervals: the half-open range lo..hi as <<lo, hi>>
intersect_intervals(first, second) ==
    IF first[1] > second[2] \/ second[1] > first[2] THEN None
    ELSE LET lo == Max(first[1], second[1])
             hi == Min(first[2], second[2])
         IN  IF lo >= hi THEN None ELSE Some(<<lo, hi>>)

remap_interval_to_segment(range, data_start) ==
    <<range[1] - data_start, range[2] - data_start>>

\* faulty variant of insert_in: the end of the terminal counts as inside
insert_inInclusive(data, data_pos, patch) ==
    IF patch.position >= data_pos /\ patch.position <= data_pos + Len(data)
    THEN LET k == patch.position - data_pos
         IN  SubSeq(data, 1, k) \o patch.content \o
             SubSeq(data, k + 1, Len(data))
    ELSE data

\* apply_patch, the arm PatchKind::Insertion(content)
insert_in(data, data_pos, patch) ==
    IF patch.position >= data_pos /\ patch.position < data_pos + Len(data)
    THEN LET k == patch.position - data_pos
         IN  SubSeq(data, 1, k) \o patch.content \o
             SubSeq(data, k + 1, Len(data))
    ELSE data

\* the bitwise exclusive or of two bytes
RECURSIVE BitXor(_, _)
BitXor(a, b) ==
    IF a = 0 THEN b
    ELSE IF b = 0 THEN a
    ELSE (((a % 2) + (b % 2)) % 2) + (2 * BitXor(a \div 2, b \div 2))

\* a Xor patch on a terminal: the bytes of the terminal that the content
\* covers become their exclusive or with the content (for BitFlip, the
\* Replacement of one byte by the byte with one bit flipped)
xor_in(data, data_pos, patch) ==
    LET span == intersect_intervals(
                    <<data_pos, data_pos + Len(data)>>,
                    <<patch.position, patch.position + Len(patch.content)>>)
    IN  IF span = None THEN data
        ELSE LET d == remap_interval_to_segment(span[1], data_pos)
                 c == remap_interval_to_segment(span[1], patch.position)
             IN  [i \in 1..Len(data) |->
                    IF i - 1 >= d[1] /\ i - 1 < d[2]
                    THEN BitXor(data[i], patch.content[c[1] + (i - 1 - d[1]) + 1])
                    ELSE data[i]]

\* the free function apply_patch(data, data_pos, patch)
apply_patch(data, data_pos, patch) ==
    IF data = <<>> THEN data
    ELSE CASE patch.kind = "Replacement" ->
                LET span == intersect_intervals(
                                <<data_pos, data_pos + Len(data)>>,
                                <<patch.position, patch.position + Len(patch.content)>>)
                IN  IF span = None THEN data
                    ELSE LET d == remap_interval_to_segment(span[1], data_pos)
                             c == remap_interval_to_segment(span[1], patch.position)
                         IN  [i \in 1..Len(data) |->
                                IF i - 1 >= d[1] /\ i - 1 < d[2]
                                THEN patch.content[c[1] + (i - 1 - d[1]) + 1]
                                ELSE data[i]]
           [] patch.kind = "Erasure" ->
                LET span == intersect_intervals(
                                <<data_pos, data_pos + Len(data)>>,
                                <<patch.position, patch.position + patch.size>>)
                IN  IF span = None THEN data
                    ELSE LET d == remap_interval_to_segment(span[1], data_pos)
                         IN  SubSeq(data, 1, d[1]) \o SubSeq(data, d[2] + 1, Len(data))
           [] patch.kind = "Xor" -> xor_in(data, data_pos, patch)
           [] OTHER -> insert_in(data, data_pos, patch)

\* the node at a path of child indices
RECURSIVE node_at(_, _)
node_at(node, path) ==
    IF path = <<>> THEN node
    ELSE node_at(node.item.items[Head(path)], Tail(path))

\* the tree with the node at a path replaced
RECURSIVE replace_at(_, _, _)
replace_at(node, path, new) ==
    IF path = <<>> THEN new
    ELSE [node EXCEPT !.item.items[Head(path)] =
                          replace_at(@, Tail(path), new)]

\* mutation/tree_level.rs, writeout_nodes: the paths of the nodes of the
\* given kind, in the order of the depth-first walk
RECURSIVE writeout_nodes(_, _, _)
RECURSIVE writeout_subnodes(_, _, _, _)
writeout_subnodes(items, i, path, kind) ==
    IF i > Len(items) THEN <<>>
    ELSE writeout_nodes(items[i], Append(path, i), kind) \o
         writeout_subnodes(items, i + 1, path, kind)

writeout_nodes(node, path, kind) ==
    (IF node.item.kind = kind THEN <<path>> ELSE <<>>) \o
    (IF node.item.kind = "ProductionApplication"
     THEN writeout_subnodes(node.item.items, 1, path, kind)
     ELSE <<>>)

\* the terminals of a tree: its Data nodes
writeout_terminals(tree) == writeout_nodes(tree, <<>>, "Data")

\* Sample::apply_patch, the loop over the terminals from the i-th on
RECURSIVE patch_terminals(_, _, _, _)
patch_terminals(tree, terminals, i, patch) ==
    IF i > Len(terminals) THEN tree
    ELSE LET terminal == node_at(tree, terminals[i])
             patched == [terminal EXCEPT !.item.data =
                            apply_patch(@, terminal.start, patch)]
         IN  patch_terminals(replace_at(tree, terminals[i], patched),
                             terminals, i + 1, patch)

\* the tree without its empty Data nodes below the root
RECURSIVE prune(_)
prune(node) ==
    IF node.item.kind = "Data" THEN node
    ELSE LET kept == SelectSeq(node.item.items,
                        LAMBDA n : ~(n.item.kind = "Data" /\ n.item.data = <<>>))
         IN  [node EXCEPT !.item.items = [i \in 1..Len(kept) |-> prune(kept[i])]]

\* faulty variant of Sample_apply_patch: emptied terminals are dropped
Sample_apply_patchPrune(sample, patch) ==
    fold_into_sample(prune(
        patch_terminals(sample.tree, writeout_terminals(sample.tree), 1, patch)))

\* Sample::apply_patch
Sample_apply_patch(sample, patch) ==
    fold_into_sample(
        patch_terminals(sample.tree, writeout_terminals(sample.tree), 1, patch))

\* faulty variant of TreeRegrow_mutate: the tree is not folded again
TreeRegrow_mutateNoFold(sample, path, subtree) ==
    GrammarSample(replace_at(sample.tree, path, TreeNode(0, 0, subtree)),
                  sample.folded)

\* mutation/tree_level.rs, TreeRegrow::mutate: the node at the selected
\* path becomes the generated subtree and the whole tree is folded again
TreeRegrow_mutate(sample, path, subtree) ==
    fold_into_sample(replace_at(sample.tree, path, TreeNode(0, 0, subtree)))

\* no Sample yet
NoSample == fold_into_sample(FromItem(Data(<<>>)))
NoOp == [op |-> "idle", patch |-> Replacement(0, <<>>)]

SampleIdle ==
    /\ gsample = NoSample
    /\ gbefore = NoSample
    /\ lastOp = NoOp
    /\ nops = 0

(***************************************************************************)
(* grammar/parse.rs, grammar/validate_grammar.rs, grammar/generation.rs:   *)
(* grammars and the Generator.                                             *)
(***************************************************************************)
\* Token; a String token is held as the bytes of the string, a Regex token
\* as its source text
Identifier(i) == [kind |-> "Identifier", name |-> i, bytes |-> <<>>, min |-> 0, max |-> 0]
String(s) == [kind |-> "String", name |-> "", bytes |-> s, min |-> 0, max |-> 0]
Hex(h) == [kind |-> "Hex", name |-> "", bytes |-> h, min |-> 0, max |-> 0]
Regex(re) == [kind |-> "Regex", name |-> re, bytes |-> <<>>, min |-> 0, max |-> 0]
Bytes(min, max) == [kind |-> "Bytes", name |-> "", bytes |-> <<>>, min |-> min, max |-> max]

\* Grammar.productions: rule name -> alternatives -> tokens
NoGrammar == [rule \in {} |-> <<>>]

\* the identifiers a grammar mentions
Mentioned(g) ==
    UNION {UNION {{g[rule][v][k].name :
                      k \in {k \in 1..Len(g[rule][v]) :
                                g[rule][v][k].kind = "Identifier"}} :
                  v \in 1..Len(g[rule])} :
           rule \in DOMAIN g}

\* validate_grammar: find_root and resolve_names
validate_grammar(g) ==
    /\ "root" \in DOMAIN g
    /\ Mentioned(g) \subseteq DOMAIN g

\* the value of a random byte
RandByte == {5}

\* generate_regex: the strings the sampler of a regex can return
generate_regex(re) == IF re = "[ab]" THEN {<<97>>, <<98>>} ELSE {<<>>}

\* generate_byte_sequence: a random length in min..=max, random bytes
generate_byte_sequence(min, max) ==
    UNION {[1..size -> RandByte] : size \in min..max}

\* the outcomes of a generation call: the trees it can return as Ok,
\* whether it can return Err, and whether a usize subtraction on the way
\* can go below zero
Outcome(ok, err, underflow) == [ok |-> ok, err |-> err, underflow |-> underflow]

RECURSIVE generate_production(_, _, _)
RECURSIVE generate_tokenExpand(_, _, _)
RECURSIVE generate_token(_, _, _)
RECURSIVE collect(_, _, _, _)

\* faulty variant of generate_token: an Identifier at depth 0 is expanded
generate_tokenExpand(g, token, remaining_depth) ==
    IF token.kind = "Identifier"
    THEN generate_production(g, token.name, remaining_depth - 1)
    ELSE IF token.kind = "Regex"
         THEN Outcome({FromItem(Data(s)) : s \in generate_regex(token.name)},
                      FALSE, FALSE)
    ELSE IF token.kind = "Bytes"
         THEN Outcome({FromItem(Data(s)) :
                          s \in generate_byte_sequence(token.min, token.max)},
                      FALSE, FALSE)
    ELSE Outcome({FromItem(Data(token.bytes))}, FALSE, FALSE)

\* Generator::generate_token
generate_token(g, token, remaining_depth) ==
    IF token.kind = "Identifier"
    THEN IF remaining_depth = 0
         THEN Outcome({}, TRUE, FALSE)
         ELSE generate_production(g, token.name, remaining_depth - 1)
    ELSE IF token.kind = "Regex"
         THEN Outcome({FromItem(Data(s)) : s \in generate_regex(token.name)},
                      FALSE, FALSE)
    ELSE IF token.kind = "Bytes"
         THEN Outcome({FromItem(Data(s)) :
                          s \in generate_byte_sequence(token.min, token.max)},
                      FALSE, FALSE)
    ELSE Outcome({FromItem(Data(token.bytes))}, FALSE, FALSE)

\* production.iter().map(generate_token).collect::<Result<Vec<_>, ()>>()
\* from token k on: the first Err ends the collection
collect(g, production, remaining_depth, k) ==
    IF k > Len(production) THEN Outcome({<<>>}, FALSE, FALSE)
    ELSE LET head == generate_token(g, production[k], remaining_depth)
             rest == collect(g, production, remaining_depth, k + 1)
         IN  Outcome({<<t>> \o r : t \in head.ok, r \in rest.ok},
                     head.err \/ (head.ok # {} /\ rest.err),
                     head.underflow \/ (head.ok # {} /\ rest.underflow))

\* Generator::generate_production: remaining_depth draws of an
\* alternative; a remaining_depth below zero stands for a usize
\* subtraction that went below zero on the way here
generate_production(g, current_production, remaining_depth) ==
    IF remaining_depth < 0 THEN Outcome({}, FALSE, TRUE)
    ELSE IF remaining_depth = 0 THEN Outcome({}, TRUE, FALSE)
    ELSE LET productions == g[current_production]
             \* every alternative with the outcome of its tokens
             sub == {[chosen_idx |-> chosen_idx,
                      items |-> collect(g, productions[chosen_idx],
                                        remaining_depth - 1, 1)] :
                        chosen_idx \in 1..Len(productions)}
         IN  Outcome(
                UNION {{FromItem(ProductionApplication(current_production,
                                                       alt.chosen_idx - 1,
                                                       items)) :
                           items \in alt.items.ok} :
                       alt \in sub},
                \E alt \in sub : alt.items.err,
                \E alt \in sub : alt.items.underflow)

\* Generator::generate_of_type of a Generator with the given depth_limit:
\* the ProductionApplication of the generated node
Generator_generate_of_type(g, depth_limit, rule_name, attempts) ==
    IF attempts = 0 THEN Outcome({}, TRUE, FALSE)
    ELSE LET res == generate_production(g, rule_name, depth_limit)
         IN  Outcome({t.item : t \in res.ok}, res.err, res.underflow)

\* Generator::generate: the folded samples the loop can break with, and
\* whether an attempt can fail and be retried
Generator_generate(g, depth_limit) ==
    LET res == generate_production(g, "root", depth_limit)
    IN  [ok |-> {fold_into_sample(t) : t \in res.ok},
         retry |-> res.err, underflow |-> res.underflow]

\* the number of nested production applications of a tree
RECURSIVE Nesting(_)
Nesting(node) ==
    IF node.item.kind = "Data" THEN 0
    ELSE LET below == {Nesting(node.item.items[i]) :
                         i \in 1..Len(node.item.items)}
         IN  1 + (IF below = {} THEN 0
                  ELSE CHOOSE n \in below : \A m \in below : m <= n)

NoGen == [by |-> "none", depth |-> 0, depth_limit |-> 0, underflow |-> FALSE,
          tree |-> FromItem(Data(<<>>)), patch |-> Replacement(0, <<>>)]

GenIdle ==
    /\ grammar = NoGrammar
    /\ mode = "none"
    /\ cpc = "idle"
    /\ held = NoSample
    /\ minput = NoSample
    /\ applied = 0
    /\ tries = 0
    /\ nmut = 0
    /\ lastGen = NoGen

(***************************************************************************)
(* sample_library.rs: VectorLibrary.                                       *)
(***************************************************************************)
\* VectorLibrary::new
NewLibrary == [keys |-> <<>>, items |-> <<>>]

\* position of the first key equal to reference, 0 when there is none
find_position(lib, reference) ==
    IF \E i \in 1..Len(lib.keys) : lib.keys[i] = reference
    THEN CHOOSE i \in 1..Len(lib.keys) :
            /\ lib.keys[i] = reference
            /\ \A j \in 1..(i - 1) : lib.keys[j] # reference
    ELSE 0

\* VectorLibrary::find_existing
find_existing(lib, reference) ==
    LET i == find_position(lib, reference)
    IN  IF i = 0 THEN None ELSE Some(lib.items[i])

\* faulty variant of upsert: pushes even when the key is present
upsertPush(lib, key, object) ==
    [keys |-> Append(lib.keys, key), items |-> Append(lib.items, object)]

\* faulty variant of upsert: a replaced entry moves to the end
upsertMove(lib, key, object) ==
    LET i == find_position(lib, key)
        n == Len(lib.keys)
    IN  IF i # 0
        THEN [keys |-> Append(SubSeq(lib.keys, 1, i - 1) \o
                              SubSeq(lib.keys, i + 1, n), key),
              items |-> Append(SubSeq(lib.items, 1, i - 1) \o
                               SubSeq(lib.items, i + 1, n), object)]
        ELSE [keys |-> Append(lib.keys, key), items |-> Append(lib.items, object)]

\* VectorLibrary::upsert
upsert(lib, key, object) ==
    LET i == find_position(lib, key)
    IN  IF i # 0
        THEN [lib EXCEPT !.items[i] = object]
        ELSE [keys |-> Append(lib.keys, key), items |-> Append(lib.items, object)]

\* unique_name slots after upsert(key, _): a new entry has no name, a
\* replaced entry keeps its name
upsert_names(lib, names, key) ==
    IF find_position(lib, key) # 0 THEN names ELSE Append(names, None)

\* Library::add_name
add_name(lib, names, key, n) ==
    LET i == find_position(lib, key)
    IN  [names EXCEPT ![i] = Some(n)]

(***************************************************************************)
(* fuzzing.rs: Fuzzer::put_in_library.                                     *)
(***************************************************************************)
\* faulty variant of Classify: an equal size counts as an improvement
ClassifyMut(lib, sample, trace) ==
    LET existing == find_existing(lib, trace)
    IN  IF existing # None
        THEN IF get_size_score(existing[1]) >= get_size_score(sample)
             THEN "SizeImprovement"
             ELSE "Nothing"
        ELSE "New"

\* faulty variant of Classify: the size comparison is reversed
ClassifyFlip(lib, sample, trace) ==
    LET existing == find_existing(lib, trace)
    IN  IF existing # None
        THEN IF get_size_score(existing[1]) < get_size_score(sample)
             THEN "SizeImprovement"
             ELSE "Nothing"
        ELSE "New"

\* the status put_in_library computes under the library lock
Classify(lib, sample, trace) ==
    LET existing == find_existing(lib, trace)
    IN  IF existing # None
        THEN IF get_size_score(existing[1]) > get_size_score(sample)
             THEN "SizeImprovement"
             ELSE "Nothing"
        ELSE "New"

\* payload of RunResultStatus::SizeImprovement
size_delta(lib, sample, trace) ==
    LET existing == find_existing(lib, trace)
    IN  IF Classify(lib, sample, trace) = "SizeImprovement"
        THEN get_size_score(existing[1]) - get_size_score(sample)
        ELSE 0

\* faulty variant of put_in_library: nothing is ever inserted
put_in_libraryDrop(lib, sample, trace) == lib

\* library after put_in_library
put_in_library(lib, sample, trace) ==
    IF Classify(lib, sample, trace) = "Nothing" THEN lib
    ELSE upsert(lib, trace, sample)

RunResult(sample, trace, status, delta) ==
    [sample |-> sample, trace |-> trace, status |-> status, delta |-> delta]

NoResult == RunResult(<<>>, RunTrace(Code(0), EmptyTrajectory), "None", 0)
NoCur == [sample |-> <<>>, trace |-> RunTrace(Code(0), EmptyTrajectory)]


(***************************************************************************)
(* state.rs: State.                                                        *)
(***************************************************************************)
\* State::new
NewState ==
    [tested_samples |-> 0, improvements |-> 0, total_crashes |-> 0,
     total_nonzero |-> 0, total_working |-> 0,
     last_unique_crash |-> None, last_new_path |-> None]

NoFiles == [n \in {} |-> <<>>]

(***************************************************************************)
(* log.rs / fuzz_thread.rs: the lines of the event log.                    *)
(***************************************************************************)
\* faulty variant of NewPathKind: a crash is logged as an exit code
NewPathKindMut(r) == [type |-> "ExitCode", code |-> r.code]

\* the kind of a NewPath event
NewPathKind(r) ==
    IF r.kind = "Signal" THEN [type |-> "Crash", code |-> 0]
    ELSE [type |-> "ExitCode", code |-> r.code]

NewPathEvent(r, n) ==
    [type |-> "NewPath", kind |-> NewPathKind(r), trace_id |-> n, delta |-> 0]

SizeImprovementEvent(n, change) ==
    [type |-> "SizeImprovement", kind |-> [type |-> "None", code |-> 0],
     trace_id |-> n, delta |-> change]

\* a line of the event log that writeln! left incomplete
PartialLine ==
    [type |-> "Partial", kind |-> [type |-> "None", code |-> 0],
     trace_id |-> <<>>, delta |-> 0]

\* outcomes of the file-system calls of one iteration
IoOutcomes == {"ok", "save_fail", "log_fail"}

\* save_crash returns Err: create_dir_all or the open of std::fs::write
\* failed and the files are as they were, or the file was created or
\* truncated and the write stopped before the last byte
save_crash_failed(fs, n, content) ==
    {fs} \cup {(n :> SubSeq(content, 1, k)) @@ fs : k \in 0..(Len(content) - 1)}

\* writeln! returns Err: nothing or a part of the line reached the file
writeln_failed(lg) == {lg, Append(lg, PartialLine)}

\* faulty variant of CountResult: a non-zero exit is not counted
CountResultSkip(st, r) ==
    IF r.kind = "Signal" THEN [st EXCEPT !.total_crashes = @ + 1]
    ELSE IF r.code = 0 THEN [st EXCEPT !.total_working = @ + 1]
    ELSE st

\* the counter the final match on result.trace.result increments
CountResult(st, r) ==
    IF r.kind = "Signal" THEN [st EXCEPT !.total_crashes = @ + 1]
    ELSE IF r.code = 0 THEN [st EXCEPT !.total_working = @ + 1]
    ELSE [st EXCEPT !.total_nonzero = @ + 1]

(***************************************************************************)
(* Initial state of the worker, the library and the UI thread.             *)
(***************************************************************************)
\* numbers of seeds the seed loop can be given: one generated sample in
\* grammar mode, the files of the seeds directory (at least one) otherwise
SeedCounts == 1..MaxSeeds

WorkerIdle ==
    /\ library = NewLibrary
    /\ unique_names = <<>>
    /\ state = NewState
    /\ files = NoFiles
    /\ log = <<>>
    /\ running = TRUE
    /\ upc = "idle"
    /\ libLock = "none"
    /\ stateLock = "none"
    /\ cur = NoCur
    /\ result = NoResult
    /\ history = <<>>
    /\ writes = 0

InitWorker ==
    /\ WorkerIdle
    /\ wpc = "seeds"
    /\ seeds \in SeedCounts

(***************************************************************************)
(* fuzz_thread.rs: the closure of spawn_fuzzer.                            *)
(***************************************************************************)
\* the worker and the UI thread leave the name model and the tracer alone
WorkerFrame == UNCHANGED <<nameVars, tracerVars, sampleVars, genVars>>

\* Fuzzer::put_in_library, with the lock taken and dropped inside;
\* self.library.lock().unwrap() panics when the mutex is poisoned
PutInLibrary(next) ==
    /\ libLock \in {"none", "poisoned"}
    /\ IF libLock = "poisoned"
       THEN /\ wpc' = "panicked"
            /\ UNCHANGED <<library, unique_names, result, history>>
       ELSE /\ library' = put_in_library(library, cur.sample, cur.trace)
            /\ unique_names' =
                  IF Classify(library, cur.sample, cur.trace) = "Nothing"
                  THEN unique_names
                  ELSE upsert_names(library, unique_names, cur.trace)
            /\ result' = RunResult(cur.sample, cur.trace,
                                   Classify(library, cur.sample, cur.trace),
                                   size_delta(library, cur.sample, cur.trace))
            /\ history' = Append(history, cur)
            /\ wpc' = next

\* put_seed: evaluator.score(seed) returns a trace
SeedScore ==
    /\ wpc = "seeds"
    /\ seeds > 0
    /\ Len(history) < MaxExec
    /\ \E seed \in Samples, t \in Traces : cur' = [sample |-> seed, trace |-> t]
    /\ wpc' = "seed_put"
    /\ UNCHANGED <<library, unique_names, state, files, log, running, upc,
                   libLock, stateLock, seeds, result, history, writes>>
    /\ WorkerFrame

\* put_seed: evaluator.score(seed) fails and put_seed(seed).unwrap() panics
SeedScoreFail ==
    /\ wpc = "seeds"
    /\ seeds > 0
    /\ wpc' = "panicked"
    /\ UNCHANGED <<library, unique_names, state, files, log, running, upc,
                   libLock, stateLock, seeds, cur, result, history, writes>>
    /\ WorkerFrame

\* put_seed: put_in_library; the returned RunResult is dropped by the loop
SeedPut ==
    /\ wpc = "seed_put"
    /\ PutInLibrary(IF seeds = 1 THEN "open_log" ELSE "seeds")
    /\ seeds' = IF libLock = "poisoned" THEN seeds ELSE seeds - 1
    /\ UNCHANGED <<state, files, log, running, upc, libLock, stateLock, cur, writes>>
    /\ WorkerFrame

\* File::create("fuzzing.log")
OpenLog ==
    /\ wpc = "open_log"
    /\ wpc' = "loop_top"
    /\ UNCHANGED <<library, unique_names, state, files, log, running, upc,
                   libLock, stateLock, seeds, cur, result, history, writes>>
    /\ WorkerFrame

OpenLogFail ==
    /\ wpc = "open_log"
    /\ wpc' = "panicked"
    /\ UNCHANGED <<library, unique_names, state, files, log, running, upc,
                   libLock, stateLock, seeds, cur, result, history, writes>>
    /\ WorkerFrame

\* faulty variant of LoopTop: the flag is not consulted
LoopTopIgnore ==
    /\ wpc = "loop_top"
    /\ Len(history) < MaxExec
    /\ wpc' = "pick"
    /\ UNCHANGED <<library, unique_names, state, files, log, running, upc,
                   libLock, stateLock, seeds, cur, result, history, writes>>
    /\ WorkerFrame

\* while FUZZER_RUNNNIG.load(SeqCst): the flag is read here and nowhere else
LoopTop ==
    /\ wpc = "loop_top"
    /\ running => Len(history) < MaxExec
    /\ wpc' = IF running THEN "pick" ELSE "done"
    /\ UNCHANGED <<library, unique_names, state, files, log, running, upc,
                   libLock, stateLock, seeds, cur, result, history, writes>>
    /\ WorkerFrame

\* run_once: lock the library and pick_random; WeightedIndex::new(..)
\* .unwrap() panics on an empty library while the guard is held, which
\* poisons the library mutex
Pick ==
    /\ wpc = "pick"
    /\ libLock \in {"none", "poisoned"}
    /\ IF libLock = "poisoned"
       THEN /\ wpc' = "panicked"
            /\ UNCHANGED <<libLock, cur>>
       ELSE IF library.items = <<>>
       THEN /\ wpc' = "panicked"
            /\ libLock' = "poisoned"
            /\ UNCHANGED cur
       ELSE /\ \E i \in 1..Len(library.items) :
                  cur' = [cur EXCEPT !.sample = library.items[i]]
            /\ libLock' = "worker"
            /\ wpc' = "mutate"
    /\ UNCHANGED <<library, unique_names, state, files, log, running, upc,
                   stateLock, seeds, result, history, writes>>
    /\ WorkerFrame

\* faulty variant of Mutate: the library guard outlives the block
MutateHolding ==
    /\ wpc = "mutate"
    /\ \E m \in Samples : cur' = [cur EXCEPT !.sample = m]
    /\ wpc' = "exec"
    /\ UNCHANGED <<library, unique_names, state, files, log, running, upc,
                   libLock, stateLock, seeds, result, history, writes>>
    /\ WorkerFrame

\* run_once: mutate_sample(sample, library.linearize()), then the guard drops
Mutate ==
    /\ wpc = "mutate"
    /\ \E m \in Samples : cur' = [cur EXCEPT !.sample = m]
    /\ libLock' = "none"
    /\ wpc' = "exec"
    /\ UNCHANGED <<library, unique_names, state, files, log, running, upc,
                   stateLock, seeds, result, history, writes>>
    /\ WorkerFrame

\* run_once: evaluator.score(mutated) runs the child and returns its trace
Exec ==
    /\ wpc = "exec"
    /\ \E t \in Traces : cur' = [cur EXCEPT !.trace = t]
    /\ wpc' = "put"
    /\ UNCHANGED <<library, unique_names, state, files, log, running, upc,
                   libLock, stateLock, seeds, result, history, writes>>
    /\ WorkerFrame

\* faulty variant of ExecFail: the error is logged and the loop goes on
ExecFailContinue ==
    /\ wpc = "exec"
    /\ wpc' = "loop_top"
    /\ UNCHANGED <<library, unique_names, state, files, log, running, upc,
                   libLock, stateLock, seeds, cur, result, history, writes>>
    /\ WorkerFrame

\* run_once: evaluator.score fails; the loop logs and bails
ExecFail ==
    /\ wpc = "exec"
    /\ wpc' = "failed"
    /\ UNCHANGED <<library, unique_names, state, files, log, running, upc,
                   libLock, stateLock, seeds, cur, result, history, writes>>
    /\ WorkerFrame

\* run_once: evaluator.score panics (the assertion at the end of
\* FunctionTracer::run, the expect of PassViaFile::make_command); the library
\* guard was dropped before score, so no mutex is poisoned
ExecPanic ==
    /\ wpc = "exec"
    /\ wpc' = "panicked"
    /\ UNCHANGED <<library, unique_names, state, files, log, running, upc,
                   libLock, stateLock, seeds, cur, result, history, writes>>
    /\ WorkerFrame

\* run_once: put_in_library and update_scores (a no-op)
Put ==
    /\ wpc = "put"
    /\ PutInLibrary("lock_lib")
    /\ UNCHANGED <<state, files, log, running, upc, libLock, stateLock, seeds,
                   cur, writes>>
    /\ WorkerFrame

\* let mut library = library.lock().unwrap()
LockLib ==
    /\ wpc = "lock_lib"
    /\ libLock \in {"none", "poisoned"}
    /\ IF libLock = "poisoned"
       THEN wpc' = "panicked" /\ UNCHANGED libLock
       ELSE wpc' = "lock_state" /\ libLock' = "worker"
    /\ UNCHANGED <<library, unique_names, state, files, log, running, upc,
                   stateLock, seeds, cur, result, history, writes>>
    /\ WorkerFrame

\* let mut state = state.lock().unwrap(); a panic here unwinds through the
\* library guard and poisons the library mutex
LockState ==
    /\ wpc = "lock_state"
    /\ stateLock \in {"none", "poisoned"}
    /\ IF stateLock = "poisoned"
       THEN wpc' = "panicked" /\ libLock' = "poisoned" /\ UNCHANGED stateLock
       ELSE wpc' = "book" /\ stateLock' = "worker" /\ UNCHANGED libLock
    /\ UNCHANGED <<library, unique_names, state, files, log, running, upc,
                   seeds, cur, result, history, writes>>
    /\ WorkerFrame

\* state.tested_samples += 1 at the top of the bookkeeping
Tested(st) == [st EXCEPT !.tested_samples = @ + 1]

\* loop body, status Nothing
BookNothing ==
    /\ wpc = "book"
    /\ result.status = "Nothing"
    /\ state' = CountResult(Tested(state), result.trace.result)
    /\ libLock' = "none"
    /\ stateLock' = "none"
    /\ wpc' = "loop_top"
    /\ UNCHANGED <<library, unique_names, files, log, running, upc, seeds,
                   cur, result, history, writes>>
    /\ WorkerFrame

\* loop body, status New
BookNew ==
    /\ wpc = "book"
    /\ result.status = "New"
    /\ \E draw \in NameDraws, io \in IoOutcomes :
        LET n == get_unique_name(draw)
            crash == result.trace.result.kind = "Signal"
            st1 == [Tested(state) EXCEPT !.last_new_path = Some(state.tested_samples + 1)]
            st2 == IF crash
                   THEN [st1 EXCEPT !.last_unique_crash = Some(state.tested_samples + 1)]
                   ELSE st1
            saved == crash /\ io # "save_fail"
            logged == io = "ok" \/ (io = "save_fail" /\ ~crash)
        IN  /\ unique_names' = add_name(library, unique_names, result.trace, n)
            /\ files' \in IF saved THEN {(n :> result.sample) @@ files}
                          ELSE IF crash
                          THEN save_crash_failed(files, n, result.sample)
                          ELSE {files}
            /\ writes' = IF saved THEN writes + 1 ELSE writes
            /\ log' \in IF logged
                        THEN {Append(log, NewPathEvent(result.trace.result, n))}
                        ELSE IF io = "log_fail" THEN writeln_failed(log)
                        ELSE {log}
            /\ state' = IF logged THEN CountResult(st2, result.trace.result) ELSE st2
            /\ wpc' = IF logged THEN "loop_top" ELSE "failed"
    /\ libLock' = "none"
    /\ stateLock' = "none"
    /\ UNCHANGED <<library, running, upc, seeds, cur, result, history>>
    /\ WorkerFrame

\* loop body, status SizeImprovement(change)
BookSizeImprovement ==
    /\ wpc = "book"
    /\ result.status = "SizeImprovement"
    /\ \E io \in IoOutcomes :
        LET crash == result.trace.result.kind = "Signal"
            st1 == [Tested(state) EXCEPT !.improvements = @ + 1]
            slot == unique_names[find_position(library, result.trace)]
            named == slot # None
            saved == crash /\ named /\ io # "save_fail"
            logged == saved /\ io = "ok"
            completed == ~crash \/ logged
        IN  /\ files' \in IF saved THEN {(slot[1] :> result.sample) @@ files}
                          ELSE IF crash /\ named
                          THEN save_crash_failed(files, slot[1], result.sample)
                          ELSE {files}
            /\ writes' = IF saved THEN writes + 1 ELSE writes
            /\ log' \in IF logged
                        THEN {Append(log, SizeImprovementEvent(slot[1], result.delta))}
                        ELSE IF saved THEN writeln_failed(log)
                        ELSE {log}
            /\ state' = IF completed THEN CountResult(st1, result.trace.result) ELSE st1
            /\ wpc' = IF completed THEN "loop_top"
                      ELSE IF named THEN "failed" ELSE "panicked"
            \* the unwrap of a missing name panics under both guards
            /\ libLock' = IF crash /\ ~named THEN "poisoned" ELSE "none"
            /\ stateLock' = IF crash /\ ~named THEN "poisoned" ELSE "none"
    /\ UNCHANGED <<library, unique_names, running, upc, seeds, cur, result, history>>
    /\ WorkerFrame

(***************************************************************************)
(* ui.rs: TerminalUi::tick and serve_ui; the shutdown flag.                *)
(***************************************************************************)
\* faulty variant of UiLockLib: tick takes the state lock first
UiLockStateFirst ==
    /\ upc = "idle"
    /\ stateLock = "none"
    /\ stateLock' = "ui"
    /\ upc' = "drop_state"
    /\ UNCHANGED <<library, unique_names, state, files, log, running, wpc,
                   libLock, seeds, cur, result, history, writes>>
    /\ WorkerFrame

\* tick: self.library.lock().unwrap(); on a poisoned mutex tick panics
\* before it holds anything and draw_all never runs
UiLockLib ==
    /\ upc = "idle"
    /\ libLock \in {"none", "poisoned"}
    /\ IF libLock = "poisoned"
       THEN upc' = "panicked" /\ UNCHANGED libLock
       ELSE upc' = "has_lib" /\ libLock' = "ui"
    /\ UNCHANGED <<library, unique_names, state, files, log, running, wpc,
                   stateLock, seeds, cur, result, history, writes>>
    /\ WorkerFrame

\* tick: self.state.lock().unwrap(); a panic here unwinds through the
\* library guard and poisons the library mutex
UiLockState ==
    /\ upc = "has_lib"
    /\ stateLock \in {"none", "poisoned"}
    /\ IF stateLock = "poisoned"
       THEN upc' = "panicked" /\ libLock' = "poisoned" /\ UNCHANGED stateLock
       ELSE upc' = "draw" /\ stateLock' = "ui" /\ UNCHANGED libLock
    /\ UNCHANGED <<library, unique_names, state, files, log, running, wpc,
                   seeds, cur, result, history, writes>>
    /\ WorkerFrame

\* tick: draw_all, then the TerminalInstance drops its library guard first
UiDraw ==
    /\ upc = "draw"
    /\ libLock' = "none"
    /\ upc' = "drop_state"
    /\ UNCHANGED <<library, unique_names, state, files, log, running, wpc,
                   stateLock, seeds, cur, result, history, writes>>
    /\ WorkerFrame

\* tick: the state guard drops
UiDropState ==
    /\ upc = "drop_state"
    /\ stateLock' = "none"
    /\ upc' = "idle"
    /\ UNCHANGED <<library, unique_names, state, files, log, running, wpc,
                   libLock, seeds, cur, result, history, writes>>
    /\ WorkerFrame

\* SIGINT or the UI's exit clears the running flag
Shutdown ==
    /\ running
    /\ running' = FALSE
    /\ UNCHANGED <<library, unique_names, state, files, log, wpc, upc,
                   libLock, stateLock, seeds, cur, result, history, writes>>
    /\ WorkerFrame

NameIdle ==
    /\ nameBytes = <<>>
    /\ name = <<>>

\* no event of the child has been reported yet
NoEvent == [kind |-> "none", code |-> 0]

TracerIdle ==
    /\ tpc = "idle"
    /\ base_offset = None
    /\ breakpoints = {}
    /\ trajectory = EmptyTrajectory
    /\ traceResult = None
    /\ rip = 0
    /\ events = 0
    /\ hitCount = EmptyTrajectory
    /\ runs = 0
    /\ lastEvent = NoEvent

NextWorker ==
    \/ SeedScore
    \/ SeedScoreFail
    \/ SeedPut
    \/ OpenLog
    \/ OpenLogFail
    \/ LoopTop
    \/ Pick
    \/ Mutate
    \/ Exec
    \/ ExecFail
    \/ ExecPanic
    \/ Put
    \/ LockLib
    \/ LockState
    \/ BookNothing
    \/ BookNew
    \/ BookSizeImprovement
    \/ UiLockLib
    \/ UiLockState
    \/ UiDraw
    \/ UiDropState
    \/ Shutdown

Init ==
    /\ InitWorker
    /\ NameIdle
    /\ TracerIdle
    /\ SampleIdle
    /\ GenIdle

Next == NextWorker

Spec == Init /\ [][Next]_vars

\* the top of the loop in the fair runs, which start one run of the loop
\* less than MaxExec allows
LoopTopFair ==
    /\ running => Len(history) < MaxExec - 1
    /\ LoopTop

\* the steps of the worker thread
WorkerStep ==
    \/ SeedScore
    \/ SeedScoreFail
    \/ SeedPut
    \/ OpenLog
    \/ OpenLogFail
    \/ LoopTopFair
    \/ Pick
    \/ Mutate
    \/ Exec
    \/ ExecFail
    \/ ExecPanic
    \/ Put
    \/ LockLib
    \/ LockState
    \/ BookNothing
    \/ BookNew
    \/ BookSizeImprovement

\* the steps of a tick that holds the library guard
UiRelease == UiLockState \/ UiDraw \/ UiDropState

\* the fair runs start with one seed, as in grammar mode
InitFair == Init /\ seeds = 1

NextFair == WorkerStep \/ UiLockLib \/ UiRelease \/ Shutdown

\* the worker thread keeps running and gets a mutex that is free again and
\* again (the UI sleeps between two ticks); a tick that holds the library
\* guard goes on to its end
SpecFair ==
    /\ InitFair
    /\ [][NextFair]_vars
    /\ SF_vars(WorkerStep)
    /\ WF_vars(UiRelease)

TypeOK ==
    /\ wpc \in {"idle", "seeds", "seed_put", "open_log", "loop_top", "pick", "mutate",
                "exec", "put", "lock_lib", "lock_state", "book", "done",
                "failed", "panicked"}
    /\ Len(library.keys) = Len(library.items)
    /\ Len(unique_names) = Len(library.items)


(***************************************************************************)
(* Properties of the classification and of the library.                    *)
(***************************************************************************)
\* a step in which put_in_library classified cur (from put_seed or run_once)
Classified == history' = Append(history, cur)

\* positions of the library holding a key equal to t
Holding(lib, t) == {i \in 1..Len(lib.keys) : lib.keys[i] = t}

\* C1: put_in_library reports New exactly when no entry with an equal trace
\* existed, and then inserts the sample; SizeImprovement with delta = old
\* size - new size > 0 exactly when an entry existed and the new sample is
\* strictly smaller, and then replaces the exemplar; otherwise Nothing, and
\* the library is unchanged.
C1_Classification ==
    [][Classified =>
        LET at == Holding(library, cur.trace)
            existed == at # {}
            old == library.items[CHOOSE i \in at : TRUE]
            smaller == existed /\ Len(cur.sample) < Len(old)
        IN  /\ result'.sample = cur.sample
            /\ result'.trace = cur.trace
            /\ (result'.status = "New") <=> ~existed
            /\ ~existed =>
                 /\ library'.keys = Append(library.keys, cur.trace)
                 /\ library'.items = Append(library.items, cur.sample)
            /\ (result'.status = "SizeImprovement") <=> smaller
            /\ smaller =>
                 /\ result'.delta = Len(old) - Len(cur.sample)
                 /\ result'.delta > 0
                 /\ library'.keys = library.keys
                 /\ \A i \in 1..Len(library.items) :
                       library'.items[i] =
                          IF i \in at THEN cur.sample ELSE library.items[i]
            /\ (existed /\ ~smaller) =>
                 /\ result'.status = "Nothing"
                 /\ library' = library
    ]_vars

\* a seed-inserted exemplar has been replaced by a strictly smaller sample
C1_Witness ==
    /\ result.status = "SizeImprovement"
    /\ result.delta > 0
    /\ Len(history) >= 2
    /\ \E i \in 1..Len(library.keys) :
          library.keys[i] = result.trace /\ library.items[i] = result.sample

\* C2: library monotonicity. A key once inserted stays at its place, the
\* size of its exemplar never grows, and the exemplar changes only to a
\* strictly smaller sample that was run with the same fingerprint; so every
\* sample that was upserted is followed forever by an entry of at most its
\* size.
C2_Monotonic ==
    [][\A i \in 1..Len(library.keys) :
          /\ i <= Len(library'.keys)
          /\ library'.keys[i] = library.keys[i]
          /\ Len(library'.items[i]) <= Len(library.items[i])
          /\ library'.items[i] # library.items[i] =>
                /\ Len(library'.items[i]) < Len(library.items[i])
                /\ library'.items[i] = cur.sample
                /\ library.keys[i] = cur.trace
    ]_vars

\* an entry whose exemplar is smaller than the sample first inserted for it
C2_Witness ==
    \E h \in 1..Len(history), i \in 1..Len(library.keys) :
        /\ library.keys[i] = history[h].trace
        /\ \A g \in 1..(h - 1) : history[g].trace # history[h].trace
        /\ Len(library.items[i]) < Len(history[h].sample)
        /\ wpc = "loop_top"

\* runs of history that produced fingerprint t
RunsOf(t) == {h \in 1..Len(history) : history[h].trace = t}

\* the earliest run among the smallest samples that produced t
FirstSmallest(t) ==
    CHOOSE h \in RunsOf(t) :
        \A g \in RunsOf(t) :
            \/ Len(history[h].sample) < Len(history[g].sample)
            \/ (Len(history[h].sample) = Len(history[g].sample) /\ h <= g)

\* C3: for every fingerprint produced so far the library holds exactly one
\* entry, and its exemplar is the smallest sample that produced it, the
\* earliest one among equals.
\* It holds of the empty library and is checked after every step that
\* changes the library or the runs.
C3_Minimal ==
    [][(library' # library \/ history' # history) =>
        \A t \in {history'[h].trace : h \in 1..Len(history')} :
            LET at == Holding(library', t)
            IN  /\ Cardinality(at) = 1
                /\ \A i \in at :
                      library'.items[i] = history'[FirstSmallest(t)'].sample
      ]_vars

\* two different samples of one size gave one fingerprint, the earlier is kept
C3_Witness ==
    \E a, b \in 1..Len(history) :
        /\ a < b
        /\ history[a].trace = history[b].trace
        /\ Len(history[a].sample) = Len(history[b].sample)
        /\ history[a].sample # history[b].sample
        /\ \E i \in Holding(library, history[a].trace) :
              library.items[i] = history[a].sample

(***************************************************************************)
(* Properties of the bookkeeping of the loop body.                         *)
(***************************************************************************)
\* C4: when the worker handles a SizeImprovement for a Signal trace, the
\* library entry of that trace carries a unique name, also when the entry
\* was inserted by put_seed.
C4_CrashNamed ==
    (/\ wpc = "book"
     /\ result.status = "SizeImprovement"
     /\ result.trace.result.kind = "Signal")
    => \A i \in Holding(library, result.trace) : unique_names[i] # None

\* C5: at the end of every loop iteration every Signal entry of the library
\* has a crash file under its name holding the bytes of its exemplar.
C5_CrashFilesInSync ==
    (wpc = "loop_top" /\ state.tested_samples >= 1)
    => \A i \in 1..Len(library.keys) :
          library.keys[i].result.kind = "Signal" =>
             /\ unique_names[i] # None
             /\ unique_names[i][1] \in DOMAIN files
             /\ files[unique_names[i][1]] = library.items[i]

\* the loop body ran from the locks to its end, or to its error
Booked == wpc = "book" /\ wpc' # "book"

\* what the statement of C6 requires of one run of the loop body
C6_Body(mustComplete) ==
    LET crash == result.trace.result.kind = "Signal"
        at == Holding(library, result.trace)
    IN  /\ result.status = "New" =>
            /\ \A i \in at : unique_names'[i] # None
            /\ mustComplete =>
                 /\ Len(log') = Len(log) + 1
                 /\ \A i \in at :
                       log'[Len(log')] =
                          [type |-> "NewPath",
                           kind |-> IF crash THEN [type |-> "Crash", code |-> 0]
                                    ELSE [type |-> "ExitCode",
                                          code |-> result.trace.result.code],
                           trace_id |-> unique_names'[i][1],
                           delta |-> 0]
                 /\ SubSeq(log', 1, Len(log)) = log
                 /\ (writes' = writes + 1) <=> crash
                 /\ crash => \A i \in at :
                       /\ unique_names'[i][1] \in DOMAIN files'
                       /\ files'[unique_names'[i][1]] = result.sample
            /\ ~crash => (writes' = writes /\ files' = files)
        /\ result.status = "Nothing" =>
            /\ writes' = writes
            /\ files' = files
            /\ log' = log

\* C6 as stated: every iteration whose status is New attaches a name and
\* appends exactly one NewPath event with that name and the kind of the
\* result, and writes a crash file exactly when the result is Signal; a
\* Nothing iteration writes no file and appends no event.
C6_AsStated == [][Booked => C6_Body(TRUE)]_vars

\* the crash file n after a save_crash that returned Err: as it was, or a
\* proper prefix of the sample
TruncatedFile(n) ==
    \/ files' = files
    \/ /\ n \in DOMAIN files'
       /\ Len(files'[n]) < Len(result.sample)
       /\ files'[n] = SubSeq(result.sample, 1, Len(files'[n]))
       /\ \A m \in DOMAIN files' \ {n} : m \in DOMAIN files /\ files'[m] = files[m]
       /\ DOMAIN files \subseteq DOMAIN files'

\* the event log after a writeln! that returned Err: no event was added,
\* at most an incomplete line
NoEventAppended ==
    \/ log' = log
    \/ /\ Len(log') = Len(log) + 1
       /\ SubSeq(log', 1, Len(log)) = log
       /\ log'[Len(log')].type = "Partial"

\* a New iteration in which save_crash or writeln! returned Err
C6_WriteFailed ==
    LET crash == result.trace.result.kind = "Signal"
        at == Holding(library, result.trace)
    IN  /\ wpc' = "failed"
        /\ \A i \in at : unique_names'[i] # None
        /\ ~crash => (writes' = writes /\ files' = files)
        /\ \/ /\ crash
              /\ writes' = writes
              /\ \A i \in at : TruncatedFile(unique_names'[i][1])
              /\ log' = log
           \/ /\ crash =>
                    /\ writes' = writes + 1
                    /\ \A i \in at :
                          /\ unique_names'[i][1] \in DOMAIN files'
                          /\ files'[unique_names'[i][1]] = result.sample
              /\ NoEventAppended

\* C6: every iteration whose status is New attaches a name. It
\* then writes a crash file exactly when the result is Signal and appends
\* exactly one NewPath event with that name and the kind of the result,
\* or one of its writes fails and the worker returns the error: after a
\* failed save_crash the crash file is as it was or truncated and nothing
\* is appended to the log; after a failed log write the crash file of a
\* Signal is written and the log has gained no event, at most an
\* incomplete line. A Nothing iteration writes no file and appends no
\* event.
C6_NewPathLogged ==
    [][Booked =>
         \/ wpc' = "loop_top" /\ C6_Body(TRUE)
         \/ result.status = "New" /\ C6_WriteFailed
         \/ result.status = "SizeImprovement"
      ]_vars

\* a crash was found by the loop, named, saved and logged
C6_Witness ==
    /\ wpc = "loop_top"
    /\ result.status = "New"
    /\ result.trace.result.kind = "Signal"
    /\ log # <<>>
    /\ log[Len(log)].kind.type = "Crash"
    /\ log[Len(log)].trace_id \in DOMAIN files
    /\ state.tested_samples >= 1

\* C8: while the child executes (inside evaluator.score of put_seed or of
\* run_once) the worker holds neither the library lock nor the state lock,
\* and it holds none when it comes back to the top of the loop.
C8_NoLockAcrossExecution ==
    wpc \in {"seeds", "exec", "loop_top", "pick"} =>
        (libLock # "worker" /\ stateLock # "worker")

\* the UI thread holds both locks during an execution
C8_Witness ==
    /\ wpc = "exec"
    /\ libLock = "ui"
    /\ stateLock = "ui"


(***************************************************************************)
(* The name model: get_unique_name over the draws of its random bytes.     *)
(***************************************************************************)
\* (0..6): the number of random bytes of a name
NameByteCount == 6

InitName ==
    /\ nameBytes = <<>>
    /\ name = <<>>
    /\ WorkerIdle
    /\ wpc = "idle"
    /\ seeds = 0
    /\ TracerIdle
    /\ SampleIdle
    /\ GenIdle

\* one rng.gen::<u8>() of get_unique_name; the name is collected after the
\* last one
DrawByte ==
    /\ Len(nameBytes) < NameByteCount
    /\ \E b \in RandBytes : nameBytes' = Append(nameBytes, b)
    /\ name' = IF Len(nameBytes') = NameByteCount
               THEN get_unique_name(nameBytes')
               ELSE name
    /\ UNCHANGED <<workerVars, tracerVars, sampleVars, genVars>>

NextName == DrawByte

SpecName == InitName /\ [][NextName]_vars

LowerHexDigits ==
    {"0", "1", "2", "3", "4", "5", "6", "7", "8", "9", "a", "b", "c", "d", "e", "f"}

\* C7: the unique name is exactly 12 characters long and made of lowercase
\* hexadecimal digits only, for every draw of the 6 random bytes.
C7_NameIsTwelveHex ==
    Len(nameBytes) = NameByteCount =>
        /\ Len(name) = 12
        /\ \A i \in 1..Len(name) : name[i] \in LowerHexDigits

(***************************************************************************)
(* Shutdown, errors, the frame of upsert and the lock during mutation.     *)
(***************************************************************************)
\* the variables only the worker writes
workerData == <<library, unique_names, state, files, log, seeds, cur, result,
                history, writes>>

\* the sum of the three outcome counters
Outcomes(st) == st.total_crashes + st.total_nonzero + st.total_working

\* the worker is inside an iteration of the loop
InIteration ==
    wpc \in {"pick", "mutate", "exec", "put", "lock_lib", "lock_state", "book"}

\* C12 as stated: once the flag is false, the iteration in progress is
\* completed and the worker thread then terminates with Ok.
C12_AsStated == (~running /\ InIteration) ~> (wpc = "done")

\* C12: cooperative shutdown. The running flag decides the worker's step
\* only at the top of the loop: with the flag true a run starts, with the
\* flag false the loop is left and the thread returns Ok; no run starts
\* anywhere else and the loop is left nowhere else. With the flag false
\* the bookkeeping of the iteration in progress either is done in full
\* (tested counter, outcome counter, event-log line and crash file of a
\* New path) and the worker comes back to the top of the loop, or it ends
\* in the error return or in a panic and no outcome is counted. Once the
\* flag is false the worker thread ends: with Ok from the top of the
\* loop, or with the error or the panic of the iteration (or of the seed
\* phase) that was in progress. After returning the worker changes
\* nothing.
C12_CooperativeShutdown ==
    /\ [](wpc = "done" => ~running)
    /\ [][/\ (wpc = "loop_top" /\ wpc' # wpc) =>
                wpc' = IF running THEN "pick" ELSE "done"
          /\ (wpc' = "pick" /\ wpc # "pick") => (wpc = "loop_top" /\ running)
          /\ (wpc' = "done" /\ wpc # "done") => (wpc = "loop_top" /\ ~running)
          /\ (InIteration /\ wpc' # wpc) =>
                (InIteration' \/ wpc' \in {"loop_top", "failed", "panicked"})
          /\ (~running /\ Booked) => wpc' \in {"loop_top", "failed", "panicked"}
          /\ (~running /\ Booked /\ wpc' = "loop_top") =>
                /\ state'.tested_samples = state.tested_samples + 1
                /\ Outcomes(state') = Outcomes(state) + 1
                /\ result.status = "New" =>
                      /\ Len(log') = Len(log) + 1
                      /\ log'[Len(log')].type = "NewPath"
                      /\ result.trace.result.kind = "Signal" =>
                            /\ writes' = writes + 1
                            /\ log'[Len(log')].trace_id \in DOMAIN files'
                            /\ files'[log'[Len(log')].trace_id] = result.sample
          /\ (~running /\ Booked /\ wpc' # "loop_top") =>
                Outcomes(state') = Outcomes(state)
          /\ wpc = "done" => UNCHANGED <<wpc, workerData>>
         ]_vars
    /\ (~running) ~> (wpc \in {"done", "failed", "panicked"})

\* the flag was cleared, the worker finished an iteration that found a new
\* crash and returned
C12_Witness ==
    /\ wpc = "done"
    /\ ~running
    /\ state.tested_samples >= 1
    /\ state.total_crashes >= 1
    /\ Len(log) >= 1
    /\ writes >= 1

\* writeln! returned Ok: the log gained one line, an event of that type
EventAppended(type) ==
    /\ Len(log') = Len(log) + 1
    /\ SubSeq(log', 1, Len(log)) = log
    /\ log'[Len(log')].type = type

\* C13: an error inside the loop is fatal. When run_once fails, when the
\* crash file of a new crash is not written, or when the event-log line of
\* a new path is not appended, the worker's next position is the error
\* return, whatever the failed write left in the file or in the log, and
\* the iteration is not counted; after the error return the worker does
\* nothing more. A run_once that does not come back with a trace either
\* returns the error or unwinds in a panic, and the worker does nothing
\* more after a panic.
C13_ErrorsAreFatal ==
    [][/\ (wpc = "exec" /\ wpc' \notin {"exec", "put", "panicked"}) =>
             wpc' = "failed"
       /\ wpc = "panicked" => UNCHANGED <<wpc, workerData>>
       /\ (Booked /\ result.status = "New") =>
             /\ (result.trace.result.kind = "Signal" /\ writes' = writes) =>
                   (wpc' = "failed" /\ log' = log)
             /\ ~EventAppended("NewPath") =>
                   (wpc' = "failed" /\ NoEventAppended)
       /\ (Booked /\ result.status = "SizeImprovement"
                  /\ result.trace.result.kind = "Signal"
                  /\ wpc' # "panicked") =>
             /\ writes' = writes => (wpc' = "failed" /\ log' = log)
             /\ ~EventAppended("SizeImprovement") =>
                   (wpc' = "failed" /\ NoEventAppended)
       /\ (Booked /\ wpc' = "failed") =>
             Outcomes(state') = Outcomes(state)
       /\ wpc = "failed" => UNCHANGED <<wpc, workerData>>
      ]_vars

\* the crash file of a new crash was written, the event-log line was not,
\* and the worker returned the error
C13_Witness ==
    /\ wpc = "failed"
    /\ result.status = "New"
    /\ result.trace.result.kind = "Signal"
    /\ writes = 1
    /\ log = <<>>
    /\ state.tested_samples = 1

\* C14: upsert on a key that is present replaces only the exemplar. Every
\* step of put_in_library whose key is present keeps the keys, the number
\* of entries, the position of the entry, its unique name and all names,
\* and every other item; the item of that key is the old exemplar
\* (Nothing) or the new sample (SizeImprovement, through upsert).
C14_UpsertFrame ==
    [][(Classified /\ find_position(library, cur.trace) # 0) =>
        LET p == find_position(library, cur.trace)
        IN  /\ library'.keys = library.keys
            /\ Len(library'.items) = Len(library.items)
            /\ find_position(library', cur.trace) = p
            /\ \A j \in 1..Len(library.items) :
                  j # p => library'.items[j] = library.items[j]
            /\ library'.items[p] =
                  IF result'.status = "SizeImprovement" THEN cur.sample
                  ELSE library.items[p]
            /\ unique_names' = unique_names
      ]_vars

\* an entry that has a unique name got a smaller exemplar and kept the name
C14_Witness ==
    /\ wpc = "lock_lib"
    /\ result.status = "SizeImprovement"
    /\ Len(library.keys) = 2
    /\ find_position(library, result.trace) = 2
    /\ unique_names[2] # None
    /\ library.items[2] = result.sample
    /\ library.items[1] # result.sample

\* C18: the worker does not hold the library lock while mutate_sample
\* runs: the guard taken in run_once is released before the mutation.
C18_NoLockDuringMutation == wpc = "mutate" => libLock # "worker"

(***************************************************************************)
(* The event log, the library at run_once, the locks, the counters and     *)
(* the names.                                                              *)
(***************************************************************************)
\* C25: in the event log every SizeImprovement event of a trace_id comes
\* after a NewPath event of the same trace_id, and no trace_id is in more
\* than one NewPath event.
C25_LogOrdered ==
    /\ \A i \in 1..Len(log) :
          log[i].type = "SizeImprovement" =>
             \E j \in 1..(i - 1) :
                 /\ log[j].type = "NewPath"
                 /\ log[j].trace_id = log[i].trace_id
    /\ \A i, j \in 1..Len(log) :
          (/\ i # j
           /\ log[i].type = "NewPath"
           /\ log[j].type = "NewPath") => log[i].trace_id # log[j].trace_id

\* C26: run_once always finds an entry in the library: when the worker
\* picks and mutates, the library is not empty; the loop is entered only
\* after put_seed inserted an entry, pick_random never panics, and no step
\* removes an entry or a key.
C26_LibraryNotEmpty ==
    /\ [](wpc \in {"loop_top", "pick", "mutate", "exec", "put"} =>
            (Len(library.items) >= 1 /\ Len(history) >= 1))
    /\ [][/\ Len(library'.keys) >= Len(library.keys)
          /\ SubSeq(library'.keys, 1, Len(library.keys)) = library.keys
          /\ wpc = "pick" => wpc' \in {"pick", "mutate"}
         ]_vars

\* the worker picks from a library of two entries in its second run
C26_Witness ==
    /\ wpc = "mutate"
    /\ Len(library.items) = 2
    /\ state.tested_samples = 1
    /\ cur.sample = library.items[2]

\* a thread waits for a lock the other thread holds
WorkerBlocked ==
    \/ wpc \in {"seed_put", "pick", "put", "lock_lib"} /\ libLock = "ui"
    \/ wpc = "lock_state" /\ stateLock = "ui"
UiBlocked ==
    \/ upc = "idle" /\ libLock = "worker"
    \/ upc = "has_lib" /\ stateLock = "worker"

\* C27: the worker and the UI thread cannot deadlock on the two mutexes.
\* They never wait for each other; a thread takes the state lock only
\* while it holds the library lock and takes the library lock only while
\* it holds nothing; and inside run_once the worker holds no lock when it
\* waits for the library lock.
C27_NoDeadlock ==
    /\ [](~(WorkerBlocked /\ UiBlocked))
    /\ [](wpc \in {"seed_put", "pick", "put"} =>
            (libLock # "worker" /\ stateLock # "worker"))
    /\ [][/\ \A t \in {"worker", "ui"} :
                /\ (stateLock' = t /\ stateLock # t) =>
                      (libLock = t /\ libLock' = t)
                /\ (libLock' = t /\ libLock # t) => stateLock # t
         ]_vars

\* the worker holds the library lock and waits for the state lock, which
\* the UI thread is about to release
C27_Witness ==
    /\ wpc = "lock_state"
    /\ libLock = "worker"
    /\ stateLock = "ui"
    /\ upc = "drop_state"

\* C28: after every completed iteration tested_samples is the sum of the
\* three outcome counters; no counter ever decreases; a completed
\* iteration adds exactly one to tested_samples; improvements never
\* exceeds tested_samples.
C28_Counters ==
    /\ [](wpc \in {"loop_top", "pick", "mutate", "exec", "put", "lock_lib",
                   "lock_state", "done"} =>
            state.tested_samples = Outcomes(state))
    /\ [](state.improvements <= state.tested_samples)
    /\ [][/\ state'.tested_samples >= state.tested_samples
          /\ state'.total_working >= state.total_working
          /\ state'.total_nonzero >= state.total_nonzero
          /\ state'.total_crashes >= state.total_crashes
          /\ state'.improvements >= state.improvements
          /\ (Booked /\ wpc' = "loop_top") =>
                state'.tested_samples = state.tested_samples + 1
          /\ ~Booked => state' = state
         ]_vars

\* two iterations were completed: an improvement with a non-zero exit code
\* and a crash
C28_Witness ==
    /\ wpc = "loop_top"
    /\ state.tested_samples = 2
    /\ state.improvements = 1
    /\ state.total_nonzero = 1
    /\ state.total_crashes = 1

\* C29: no two library entries carry the same unique name, and a crash
\* file holds the exemplar of the only crash entry of that name.
C29_NamesUnique ==
    \A i, j \in 1..Len(unique_names) :
        (i # j /\ unique_names[i] # None) => unique_names[i] # unique_names[j]

(***************************************************************************)
(* The tracer model: execution.rs, FunctionTracer::run.                    *)
(***************************************************************************)
\* ElfInfo.functions: the offsets of the functions of the target
Functions == {16, 32}
\* maps[0].start of the child
LoadBases == {4096, 8192}
\* offsets the child can stop at that are no function entry
OtherOffsets == {48}
\* exit codes of the child
ExitCodes == {0, 1}

InitTracer ==
    /\ TracerIdle
    /\ WorkerIdle
    /\ wpc = "idle"
    /\ seeds = 0
    /\ NameIdle
    /\ SampleIdle
    /\ GenIdle

TracerFrame == UNCHANGED <<workerVars, nameVars, sampleVars, genVars>>

\* run: Ptracer::spawn(cmd, None)
TraceSpawn ==
    /\ tpc \in {"idle", "returned"}
    /\ runs < MaxRuns
    /\ tpc' = "spawned"
    /\ breakpoints' = {}
    /\ trajectory' = EmptyTrajectory
    /\ hitCount' = EmptyTrajectory
    /\ traceResult' = None
    /\ events' = 0
    /\ lastEvent' = NoEvent
    /\ UNCHANGED <<base_offset, rip, runs>>
    /\ TracerFrame

\* run: S::make_command of PassViaFile panics when MemFile::create_default
\* fails (.expect("failure creating memfile")), before Ptracer::spawn and
\* before the trajectory and the result of the run exist
TraceSpawnPanic ==
    /\ tpc \in {"idle", "returned"}
    /\ runs < MaxRuns
    /\ tpc' = "panicked"
    /\ breakpoints' = {}
    /\ trajectory' = EmptyTrajectory
    /\ hitCount' = EmptyTrajectory
    /\ traceResult' = None
    /\ events' = 0
    /\ lastEvent' = NoEvent
    /\ UNCHANGED <<base_offset, rip, runs>>
    /\ TracerFrame

\* run: a TraceError from spawn, determine_offset, insert_breakpoint or
\* pass_input leaves run through `?`
TraceError ==
    /\ \/ tpc \in {"idle", "returned"} /\ runs < MaxRuns
       \/ tpc = "spawned" /\ base_offset = None
       \/ tpc \in {"set_bp", "pass_input"}
    /\ tpc' = "error"
    /\ UNCHANGED <<base_offset, breakpoints, trajectory, traceResult, rip,
                   events, hitCount, runs, lastEvent>>
    /\ TracerFrame

\* a mutant of TraceOffset: the memory map is read in every run
TraceOffsetAlways ==
    /\ tpc = "spawned"
    /\ \/ /\ \E b \in LoadBases : base_offset' = Some(b)
          /\ tpc' = "set_bp"
       \/ /\ tpc' = "panicked"
          /\ UNCHANGED base_offset
    /\ UNCHANGED <<breakpoints, trajectory, traceResult, rip, events,
                   hitCount, runs, lastEvent>>
    /\ TracerFrame

\* run: if self.binary.base_offset.is_none() { ... determine_offset ... };
\* determine_offset returns maps[0].start(), and the index panics when the
\* memory map of the child is empty
TraceOffset ==
    /\ tpc = "spawned"
    /\ IF base_offset = None
       THEN \/ /\ \E b \in LoadBases : base_offset' = Some(b)
               /\ tpc' = "set_bp"
            \/ /\ tpc' = "panicked"
               /\ UNCHANGED base_offset
       ELSE /\ tpc' = "set_bp"
            /\ UNCHANGED base_offset
    /\ UNCHANGED <<breakpoints, trajectory, traceResult, rip, events,
                   hitCount, runs, lastEvent>>
    /\ TracerFrame

\* set_breakpoints
set_breakpoints(base) == {base + f : f \in Functions}

SetBreakpoints ==
    /\ tpc = "set_bp"
    /\ breakpoints' = set_breakpoints(base_offset[1])
    /\ tpc' = "pass_input"
    /\ UNCHANGED <<base_offset, trajectory, traceResult, rip, events,
                   hitCount, runs, lastEvent>>
    /\ TracerFrame

\* run: S::pass_input, then the fresh trajectory and result
PassInput ==
    /\ tpc = "pass_input"
    /\ trajectory' = EmptyTrajectory
    /\ traceResult' = None
    /\ tpc' = "loop"
    /\ UNCHANGED <<base_offset, breakpoints, rip, events, hitCount, runs,
                   lastEvent>>
    /\ TracerFrame

\* trajectory.entry(k).and_modify(|k| *k = k.inc()).or_default()
entry_inc(traj, k) ==
    IF k \in DOMAIN traj THEN [traj EXCEPT ![k] = inc(traj[k])]
    ELSE (k :> "Once") @@ traj

\* a mutant of match_event: an exit is recorded as a signal
match_eventSignal(res, kind, code) ==
    CASE kind = "exit" -> Some(Signal)
      [] kind = "signal" -> Some(Signal)
      [] OTHER -> res

\* the result recorded by the match on tracer.event()
match_event(res, kind, code) ==
    CASE kind = "exit" -> Some(Code(code))
      [] kind = "signal" -> Some(Signal)
      [] OTHER -> res

\* addresses at which the child can be when an event is reported
Addresses(base) == {base + o : o \in Functions \cup OtherOffsets}

\* a mutant of remove_breakpoint: the breakpoint stays planted
remove_breakpointKeep(bps, addr) == bps

\* tracer.remove_breakpoint(tracer.registers().rip as usize)
remove_breakpoint(bps, addr) == bps \ {addr}

\* one round of `while tracer.cont(Default).is_ok()`: the event, the
\* registers, the trajectory and the removal of a saturated breakpoint
TraceStep(kind, addr, code) ==
    /\ tpc = "loop"
    /\ lastEvent.kind \notin {"exit", "signal"}
    /\ events < MaxEvents
    /\ kind = "bp" => addr \in breakpoints
    /\ LET key == addr - base_offset[1]
           traj == entry_inc(trajectory, key)
       IN  /\ traceResult' = match_event(traceResult, kind, code)
           /\ rip' = addr
           /\ trajectory' = traj
           /\ breakpoints' = IF traj[key] = "Many"
                             THEN remove_breakpoint(breakpoints, addr)
                             ELSE breakpoints
           /\ hitCount' = IF kind # "bp" THEN hitCount
                          ELSE IF key \in DOMAIN hitCount
                               THEN [hitCount EXCEPT ![key] = @ + 1]
                               ELSE (key :> 1) @@ hitCount
    /\ events' = events + 1
    /\ lastEvent' = [kind |-> kind, code |-> code]
    /\ UNCHANGED <<tpc, base_offset, runs>>
    /\ TracerFrame

\* the child stops at a planted breakpoint
TraceBreakpoint ==
    /\ tpc = "loop"
    /\ \E addr \in Addresses(base_offset[1]) : TraceStep("bp", addr, 0)

\* the child stops for another reason
TraceOtherStop ==
    /\ tpc = "loop"
    /\ \E addr \in Addresses(base_offset[1]) : TraceStep("stop", addr, 0)

\* WaitStatus::Exited(_pid, code)
TraceExited ==
    /\ tpc = "loop"
    /\ \E addr \in Addresses(base_offset[1]), c \in ExitCodes :
          TraceStep("exit", addr, c)

\* WaitStatus::Signaled(_pid, _signal, _coredump)
TraceSignaled ==
    /\ tpc = "loop"
    /\ \E addr \in Addresses(base_offset[1]) : TraceStep("signal", addr, 0)

\* tracer.cont fails: the loop ends, the assertion, the returned RunTrace
TraceReturn ==
    /\ tpc = "loop"
    /\ IF traceResult = None
       THEN tpc' = "panicked" /\ UNCHANGED runs
       ELSE tpc' = "returned" /\ runs' = runs + 1
    /\ UNCHANGED <<base_offset, breakpoints, trajectory, traceResult, rip,
                   events, hitCount, lastEvent>>
    /\ TracerFrame

NextTracer ==
    \/ TraceSpawn
    \/ TraceSpawnPanic
    \/ TraceError
    \/ TraceOffset
    \/ SetBreakpoints
    \/ PassInput
    \/ TraceBreakpoint
    \/ TraceOtherStop
    \/ TraceExited
    \/ TraceSignaled
    \/ TraceReturn

SpecTracer == InitTracer /\ [][NextTracer]_vars

\* a round of the tracer loop
Round == tpc = "loop" /\ events' = events + 1

\* C9: Hits::inc is the saturating counter Once -> Twice -> Many. In every
\* round of the tracer the bucket of the key that is already present goes
\* Once to Twice, Twice to Many, Many to Many; no bucket ever leaves Many or
\* goes back to an earlier one.
C9_HitsSaturate ==
    [][Round =>
        \A k \in DOMAIN trajectory :
            /\ k \in DOMAIN trajectory'
            /\ k = rip' - base_offset[1] =>
                  \/ trajectory[k] = "Once" /\ trajectory'[k] = "Twice"
                  \/ trajectory[k] = "Twice" /\ trajectory'[k] = "Many"
                  \/ trajectory[k] = "Many" /\ trajectory'[k] = "Many"
            /\ k # rip' - base_offset[1] => trajectory'[k] = trajectory[k]
            /\ trajectory[k] = "Many" => trajectory'[k] = "Many"
    ]_vars

\* a bucket that reached Many by three breakpoint hits was incremented again
C9_Witness ==
    \E k \in DOMAIN trajectory :
        /\ trajectory[k] = "Many"
        /\ k \in DOMAIN hitCount
        /\ hitCount[k] = 3
        /\ events = 4
        /\ rip - base_offset[1] = k

\* the bucket of n hits
Bucket(n) == IF n = 1 THEN "Once" ELSE IF n = 2 THEN "Twice" ELSE "Many"

\* C10: the trajectory of a run holds exactly the known functions whose
\* breakpoint was hit in that run, keyed by function offset, with bucket
\* Once, Twice or Many for one, two or at least three hits; only breakpoint
\* hits change it, so at every moment of the run and in the returned trace
\* it is the bucket map of the breakpoint hits.
C10_TrajectoryIsHits ==
    tpc \in {"loop", "returned"} =>
        /\ DOMAIN trajectory = DOMAIN hitCount
        /\ DOMAIN trajectory \subseteq Functions
        /\ \A k \in DOMAIN trajectory : trajectory[k] = Bucket(hitCount[k])


\* C11: FunctionTracer::run returns a RunTrace only after a termination
\* event of the child: the returned result is Code(c) when the last event
\* was Exited with code c and Signal when it was Signaled; when the loop
\* ends without a termination event the assertion aborts the run and no
\* trace is returned.
C11_ResultIsTermination ==
    /\ tpc = "returned" =>
          /\ lastEvent.kind \in {"exit", "signal"}
          /\ lastEvent.kind = "exit" =>
                traceResult = Some(Code(lastEvent.code))
          /\ lastEvent.kind = "signal" => traceResult = Some(Signal)
    /\ tpc = "panicked" =>
          /\ traceResult = None
          /\ lastEvent.kind \notin {"exit", "signal"}
    /\ (tpc = "loop" /\ lastEvent.kind \notin {"exit", "signal"}) =>
          traceResult = None

\* a run returned the exit code 1 of a child that stopped before exiting
C11_Witness ==
    /\ tpc = "returned"
    /\ lastEvent = [kind |-> "exit", code |-> 1]
    /\ traceResult = Some(Code(1))
    /\ events >= 2

\* C19: within one run a breakpoint is removed, at the trapping address,
\* in the very round in which the function's bucket reaches Many; no
\* function stops the child at its breakpoint more than three times in a
\* run; the breakpoints of all other functions stay planted.
C19_RemovedAtMany ==
    [][Round =>
        LET base == base_offset[1]
            key == rip' - base
        IN  /\ trajectory'[key] = "Many" => rip' \notin breakpoints'
            /\ \A a \in breakpoints :
                  (a # rip' \/ trajectory'[key] # "Many") =>
                      a \in breakpoints'
            /\ breakpoints' \subseteq breakpoints
            /\ \A k \in DOMAIN hitCount' : hitCount'[k] <= 3
    ]_vars

\* the third breakpoint stop of function 16 removed its breakpoint and the
\* breakpoint of function 32 is still planted
C19_Witness ==
    /\ tpc = "loop"
    /\ 16 \in DOMAIN hitCount
    /\ hitCount[16] = 3
    /\ trajectory[16] = "Many"
    /\ base_offset[1] + 16 \notin breakpoints
    /\ base_offset[1] + 32 \in breakpoints

\* C20: ElfInfo.base_offset is None until the first run, is set in the
\* first run before any breakpoint is inserted and never changes
\* afterwards: later runs reuse the cached value, and set_breakpoints is
\* never reached while it is None.
C20_BaseOffsetCached ==
    [][/\ base_offset # None => base_offset' = base_offset
       /\ tpc \in {"idle", "spawned"} /\ runs = 0 => base_offset = None
       /\ base_offset = None => breakpoints = {} /\ breakpoints' = {}
       /\ tpc' \in {"set_bp", "pass_input", "loop", "returned"} =>
             base_offset' # None
       /\ base_offset' # base_offset => tpc = "spawned" /\ runs = 0
    ]_vars

\* the second run reached set_breakpoints with the offset of the first run
C20_Witness ==
    /\ runs = 1
    /\ tpc = "set_bp"
    /\ base_offset # None
    /\ breakpoints = {}


(***************************************************************************)
(* The sample model: the operations that yield a Sample.                   *)
(***************************************************************************)
\* operations on one Sample, its creation included
MaxOps == 3
\* patch positions 0..MaxPos; the longest Sample of the model starts with
\* three bytes, so positions at and past the end are included
MaxPos == 4
\* sizes of an Erasure
MaxErase == 2

\* contents of Replacement patches (CopyFragment can emit the empty one)
ReplacementContents == {<<>>, <<7>>, <<8, 9>>}
\* contents of Insertion patches
InsertionContents == {<<7>>, <<8, 9>>}

Patches ==
    {Replacement(p, c) : p \in 0..MaxPos, c \in ReplacementContents}
    \cup {Erasure(p, n) : p \in 0..MaxPos, n \in 1..MaxErase}
    \cup {Insertion(p, c) : p \in 0..MaxPos, c \in InsertionContents}

\* the applications of rule `item` the generator can return for the grammar
\*   root -> "\x01" item | item ;  item -> bytes(0,1) | item "\x04"
ItemBytes(bytes) == ProductionApplication("item", 0, <<FromItem(Data(bytes))>>)
ItemTrees ==
    {ItemBytes(<<5>>), ItemBytes(<<>>),
     ProductionApplication("item", 1,
        <<FromItem(ItemBytes(<<6>>)), FromItem(Data(<<4>>))>>)}

\* the applications of rule `root`
RootTrees ==
    {ProductionApplication("root", 0, <<FromItem(Data(<<1>>)), FromItem(i)>>) :
        i \in ItemTrees}
    \cup {ProductionApplication("root", 1, <<FromItem(i)>>) : i \in ItemTrees}

\* Generator::generate_of_type: the applications of a rule it can return
generate_of_type(rule) == IF rule = "root" THEN RootTrees ELSE ItemTrees

\* contents of the files of the seeds directory
SeedFiles == {<<1, 2, 3>>, <<>>}

Op(op, patch) == [op |-> op, patch |-> patch]

InitSample ==
    /\ gsample = NoSample
    /\ gbefore = NoSample
    /\ lastOp = Op("none", Replacement(0, <<>>))
    /\ nops = 0
    /\ WorkerIdle
    /\ wpc = "idle"
    /\ seeds = 0
    /\ NameIdle
    /\ TracerIdle
    /\ GenIdle

SampleFrame == UNCHANGED <<workerVars, nameVars, tracerVars, genVars>>

\* Generator::generate: a tree of rule root, folded
Generate ==
    /\ lastOp.op = "none"
    /\ \E t \in RootTrees : gsample' = fold_into_sample(FromItem(t))
    /\ gbefore' = gsample
    /\ lastOp' = Op("generate", Replacement(0, <<>>))
    /\ nops' = 1
    /\ SampleFrame

\* spawn_fuzzer, binary mode: TreeNodeItem::Data(content) folded into a seed
LoadSeed ==
    /\ lastOp.op = "none"
    /\ \E content \in SeedFiles :
          gsample' = fold_into_sample(FromItem(Data(content)))
    /\ gbefore' = gsample
    /\ lastOp' = Op("seed", Replacement(0, <<>>))
    /\ nops' = 1
    /\ SampleFrame

\* a binary mutator's patch applied by Sample::apply_patch
ApplyPatch ==
    /\ lastOp.op \notin {"none", "idle"}
    /\ nops < MaxOps
    /\ \E patch \in Patches :
          /\ gsample' = Sample_apply_patch(gsample, patch)
          /\ lastOp' = Op("apply_patch", patch)
    /\ gbefore' = gsample
    /\ nops' = nops + 1
    /\ SampleFrame

\* select_random_production: the paths of the production nodes
select_random_production(tree) ==
    LET paths == writeout_nodes(tree, <<>>, "ProductionApplication")
    IN  {paths[i] : i \in 1..Len(paths)}

\* TreeRegrow::mutate returns Ok: a production node was regenerated
Regrow ==
    /\ lastOp.op \notin {"none", "idle"}
    /\ nops < MaxOps
    /\ \E path \in select_random_production(gsample.tree) :
          \E subtree \in generate_of_type(node_at(gsample.tree, path).item.rule_name) :
              gsample' = TreeRegrow_mutate(gsample, path, subtree)
    /\ gbefore' = gsample
    /\ lastOp' = Op("regrow", Replacement(0, <<>>))
    /\ nops' = nops + 1
    /\ SampleFrame

\* TreeRegrow::mutate returns Err(sample): no production node, or every
\* roll failed to generate
RegrowFail ==
    /\ lastOp.op \notin {"none", "idle"}
    /\ nops < MaxOps
    /\ gsample' = gsample
    /\ gbefore' = gsample
    /\ lastOp' = Op("regrow_failed", Replacement(0, <<>>))
    /\ nops' = nops + 1
    /\ SampleFrame

\* Sample::strip: the tree and the buffer of the Sample
Sample_strip(sample) == <<sample.tree, sample.folded>>

\* Sample::recombine: the Sample of a tree and a buffer, taken as they are;
\* nothing is folded and the buffer is not compared with the tree
Sample_recombine(tree, folded) == GrammarSample(tree, folded)

\* a Sample is taken apart by Sample::strip and put together again by
\* Sample::recombine (nothing in the program calls either of them with
\* other parts)
Recombine ==
    /\ lastOp.op \notin {"none", "idle"}
    /\ nops < MaxOps
    /\ LET parts == Sample_strip(gsample)
       IN  gsample' = Sample_recombine(parts[1], parts[2])
    /\ gbefore' = gsample
    /\ lastOp' = Op("recombine", Replacement(0, <<>>))
    /\ nops' = nops + 1
    /\ SampleFrame

NextSample ==
    \/ Generate
    \/ LoadSeed
    \/ ApplyPatch
    \/ Regrow
    \/ RegrowFail
    \/ Recombine

SpecSample == InitSample /\ [][NextSample]_vars

\* the structure of a tree: everything but the bytes and the indices
RECURSIVE Structure(_)
Structure(node) ==
    IF node.item.kind = "Data" THEN <<"Data">>
    ELSE <<node.item.rule_name, node.item.production_variant,
           [i \in 1..Len(node.item.items) |-> Structure(node.item.items[i])]>>

\* C15: Sample::apply_patch with its re-fold leaves the structure of the
\* tree as it was: the same production nodes with the same rule names,
\* variants and numbers of children and the same Data nodes in the same
\* places, for every patch kind and every position, also past the end.
C15_PatchKeepsStructure ==
    lastOp.op = "apply_patch" =>
        /\ Structure(gsample.tree) = Structure(gbefore.tree)
        /\ Len(writeout_terminals(gsample.tree)) =
           Len(writeout_terminals(gbefore.tree))

\* an Erasure emptied a terminal of a tree with two production nodes
C15_Witness ==
    /\ lastOp.op = "apply_patch"
    /\ lastOp.patch.kind = "Erasure"
    /\ Len(gsample.folded) < Len(gbefore.folded)
    /\ Len(writeout_nodes(gsample.tree, <<>>, "ProductionApplication")) >= 2
    /\ \E i \in 1..Len(writeout_terminals(gsample.tree)) :
          LET path == writeout_terminals(gsample.tree)[i]
          IN  /\ node_at(gsample.tree, path).item.data = <<>>
              /\ node_at(gbefore.tree, path).item.data # <<>>

\* the folded bytes after a Replacement (p, c) are the old ones except that
\* the byte at every offset i with p <= i < p + len(c) and i < length is
\* c[i - p]
C16_Body ==
    LET p == lastOp.patch.position
        c == lastOp.patch.content
    IN  /\ Len(gsample.folded) = Len(gbefore.folded)
        /\ \A i \in 0..(Len(gbefore.folded) - 1) :
              gsample.folded[i + 1] =
                  IF p <= i /\ i < p + Len(c) THEN c[i - p + 1]
                  ELSE gbefore.folded[i + 1]

\* C16: a Replacement patch (p, c) applied to any Sample keeps the folded
\* length, and the folded bytes are the old ones except that the byte at
\* every offset i with p <= i < p + len(c) and i < length is c[i - p].
C16_ReplacementInPlace ==
    (lastOp.op = "apply_patch" /\ lastOp.patch.kind = "Replacement") => C16_Body

\* a two-byte Replacement changed the last byte of one terminal and the
\* first byte of the next one
C16_Witness ==
    /\ lastOp.op = "apply_patch"
    /\ lastOp.patch = Replacement(0, <<8, 9>>)
    /\ Len(writeout_terminals(gsample.tree)) >= 2
    /\ gsample.folded[1] = 8
    /\ gsample.folded[2] = 9
    /\ node_at(gsample.tree, writeout_terminals(gsample.tree)[1]).item.data = <<8>>

\* the fold invariants of a node and of the nodes below it
RECURSIVE Folded(_)
Folded(node) ==
    IF node.item.kind = "Data" THEN node.size = Len(node.item.data)
    ELSE LET items == node.item.items
         IN  /\ node.size = sum_sizes(items)
             /\ \A i \in 1..Len(items) :
                   /\ items[i].start =
                         IF i = 1 THEN node.start
                         ELSE items[i - 1].start + items[i - 1].size
                   /\ Folded(items[i])

\* C17: after every operation that yields a Sample (generate, a seed
\* folded by fold_into_sample, apply_patch, TreeRegrow returning Ok) the
\* root starts at 0 and its size is the folded length, the size of a
\* production node is the sum of its children's sizes, the size of a Data
\* node is its byte length, and every child starts where its left sibling
\* ends. A TreeRegrow that fails yields no Sample: it hands back the one it
\* was given.
C17_FoldInvariants ==
    /\ lastOp.op \notin {"none", "idle"} =>
          /\ gsample.tree.start = 0
          /\ gsample.tree.size = Len(gsample.folded)
          /\ Folded(gsample.tree)
    /\ lastOp.op = "regrow_failed" => gsample = gbefore

\* TreeRegrow replaced a production node below the root by a longer one,
\* after a patch
C17_Witness ==
    /\ lastOp.op = "regrow"
    /\ nops = 3
    /\ Len(gsample.folded) > Len(gbefore.folded)
    /\ Structure(gsample.tree) # Structure(gbefore.tree)
    /\ Structure(gsample.tree)[1] = Structure(gbefore.tree)[1]
    /\ gsample.tree.item.items[1].start = 0
    /\ Len(gsample.tree.item.items) = 2


\* the terminals of a tree whose bytes differ from those of another tree of
\* the same structure
Changed(old, new) ==
    LET terminals == writeout_terminals(old)
    IN  {i \in 1..Len(terminals) :
            node_at(new, terminals[i]).item.data #
            node_at(old, terminals[i]).item.data}

\* the first terminal whose span contains the position, 0 when none does
FirstContaining(tree, position) ==
    LET terminals == writeout_terminals(tree)
        inside == {i \in 1..Len(terminals) :
                     LET n == node_at(tree, terminals[i])
                     IN  n.start <= position /\ position < n.start + n.size}
    IN  IF inside = {} THEN 0
        ELSE CHOOSE i \in inside : \A j \in inside : i <= j

\* an Insertion patch (p, c) lengthened exactly one terminal, the first
\* Data node whose span contains p, by len(c); the folded buffer became
\* original[..p] ++ c ++ original[p..] and no other terminal's bytes changed
C21_Body ==
    LET p == lastOp.patch.position
        c == lastOp.patch.content
        old == gbefore.folded
        first == FirstContaining(gbefore.tree, p)
        terminals == writeout_terminals(gbefore.tree)
    IN  /\ gsample.folded =
              SubSeq(old, 1, p) \o c \o SubSeq(old, p + 1, Len(old))
        /\ first # 0
        /\ Changed(gbefore.tree, gsample.tree) = {first}
        /\ Len(node_at(gsample.tree, terminals[first]).item.data) =
           Len(node_at(gbefore.tree, terminals[first]).item.data) + Len(c)

\* C21: an Insertion patch (p, c) with p below the folded length
\* lengthens exactly one terminal, the first Data node whose span contains
\* p, by len(c); the folded buffer becomes original[..p] ++ c ++
\* original[p..] and no other terminal's bytes change.
C21_InsertionSplices ==
    (/\ lastOp.op = "apply_patch"
     /\ lastOp.patch.kind = "Insertion"
     /\ lastOp.patch.position < Len(gbefore.folded)) => C21_Body

\* two bytes were inserted at the first byte of the second terminal, after
\* an empty terminal or a one-byte terminal
C21_Witness ==
    /\ lastOp.op = "apply_patch"
    /\ lastOp.patch = Insertion(1, <<8, 9>>)
    /\ Len(gbefore.folded) >= 2
    /\ FirstContaining(gbefore.tree, 1) >= 2
    /\ gsample.folded[2] = 8
    /\ gsample.folded[3] = 9

(***************************************************************************)
(* The generator and mutator model: parse_grammar, Generator::generate,    *)
(* MutationChooser::mutate_sample with TreeRegrow, Resample and the byte   *)
(* mutators.                                                               *)
(***************************************************************************)
\* depth_limit of the Generator of spawn_fuzzer (30 in the source) and of
\* TreeRegrow and Resample (100 in the source), scaled down
GenerateDepth == 3
TreeDepth == 5
\* calls of mutate_sample in one run of the model
MaxMutations == 2
\* failed rounds counted per loop; further rounds leave the state as it is
MaxTries == 1

\*   root -> "\x01" item ;  item -> bytes(0 1) | item "\x04" ;
GrammarItems ==
    [rule \in {"root", "item"} |->
        IF rule = "root"
        THEN << <<Hex(<<1>>), Identifier("item")>> >>
        ELSE << <<Bytes(0, 1)>>, <<Identifier("item"), Hex(<<4>>)>> >>]
\*   root -> /[ab]/ | "x" /[ab]/ ;
GrammarRegex ==
    [rule \in {"root"} |->
        << <<Regex("[ab]")>>, <<String(<<120>>), Regex("[ab]")>> >>]
\*   root -> root ;
GrammarLoop == [rule \in {"root"} |-> << <<Identifier("root")>> >>]
\*   root -> a ; a -> b ; b -> c ; c -> "x" ;
GrammarChain ==
    [rule \in {"root", "a", "b", "c"} |->
        IF rule = "root" THEN << <<Identifier("a")>> >>
        ELSE IF rule = "a" THEN << <<Identifier("b")>> >>
        ELSE IF rule = "b" THEN << <<Identifier("c")>> >>
        ELSE << <<String(<<120>>)>> >>]
\*   root -> item ;
GrammarUnresolved == [rule \in {"root"} |-> << <<Identifier("item")>> >>]
\*   item -> "a" ;
GrammarNoRoot == [rule \in {"item"} |-> << <<String(<<97>>)>> >>]

Grammars == {GrammarItems, GrammarRegex, GrammarLoop, GrammarChain,
             GrammarUnresolved, GrammarNoRoot}

\* get_random_position
get_random_position(buffer) ==
    IF buffer = <<>> THEN {0} ELSE 0..(Len(buffer) - 1)

\* BitFlip::mutate: a Xor patch of one random bit, 1 << gen_range(0..8),
\* at a random position, position 0 on the empty reference
BitFlip_mutate(reference) ==
    {Xor(p, <<2 ^ k>>) : p \in get_random_position(reference), k \in 0..7}

\* the patches of Erasure, KnownBytes and Garbage for a reference buffer.
\* Erasure: a random size at a random position.  KnownBytes: on the empty
\* reference the Replacement of position 0 by the byte 0x00; otherwise one
\* of the thirteen variants of KnownBytes::new, as it is or reversed, at a
\* random position.  Garbage: random bytes (one byte, 7, stands for them)
\* at a random position, position 0 on the empty reference.
MutateBytes_mutate(reference) ==
    LET variants ==
            { <<0>>, <<255>>, <<0, 0>>, <<255, 255>>,
              <<0, 0, 0, 0>>, <<255, 255, 255, 255>>,
              <<0, 0, 0, 0, 0, 0, 0, 0>>,
              <<255, 255, 255, 255, 255, 255, 255, 255>>,
              <<127>>, <<1>>, <<240>>,
              <<0, 0, 0, 128>>, <<0, 0, 0, 64>> }
        reverse(c) == [i \in 1..Len(c) |-> c[Len(c) + 1 - i]]
        known == IF reference = <<>>
                 THEN {Replacement(0, <<0>>)}
                 ELSE {Replacement(p, c) :
                          p \in 0..(Len(reference) - 1),
                          c \in variants \cup {reverse(v) : v \in variants}}
    IN  {Erasure(p, n) : p \in get_random_position(reference), n \in 1..MaxErase}
        \cup known
        \cup {Replacement(p, <<7>>) : p \in get_random_position(reference)}

\* the patches of CopyFragment: an Insertion at a random offset, or the
\* empty Replacement at 0
CopyFragment_mutate(reference) ==
    {Insertion(p, <<7>>) : p \in get_random_position(reference)}
    \cup {Replacement(0, <<>>)}

\* mutate_sample, byte branch: the patch of the byte mutator drawn from
\* BitFlip, Erasure, KnownBytes, Garbage and CopyFragment
binary_mutate(reference) ==
    BitFlip_mutate(reference)
    \cup MutateBytes_mutate(reference)
    \cup CopyFragment_mutate(reference)

Gen(by, depth, depth_limit, underflow, tree) ==
    [by |-> by, depth |-> depth, depth_limit |-> depth_limit,
     underflow |-> underflow, tree |-> tree, patch |-> NoGen.patch]

\* no generation: the patch a byte mutator returned
Patched(patch) == [NoGen EXCEPT !.patch = patch]

InitGen ==
    /\ mode \in {"grammar", "seeds"}
    /\ grammar \in (IF mode = "grammar" THEN Grammars ELSE {NoGrammar})
    /\ cpc = "start"
    /\ held = NoSample
    /\ minput = NoSample
    /\ applied = 0
    /\ tries = 0
    /\ nmut = 0
    /\ lastGen = NoGen
    /\ WorkerIdle
    /\ wpc = "idle"
    /\ seeds = 0
    /\ NameIdle
    /\ TracerIdle
    /\ SampleIdle

GenFrame == UNCHANGED <<workerVars, nameVars, tracerVars, sampleVars>>

\* parse_grammar returns Ok: the grammar is validated
ParseOk ==
    /\ cpc = "start"
    /\ mode = "grammar"
    /\ validate_grammar(grammar)
    /\ cpc' = "generate"
    /\ UNCHANGED <<grammar, mode, held, minput, applied, tries, nmut, lastGen>>
    /\ GenFrame

\* parse_grammar returns Err: the process exits
ParseErr ==
    /\ cpc = "start"
    /\ mode = "grammar"
    /\ ~validate_grammar(grammar)
    /\ cpc' = "rejected"
    /\ UNCHANGED <<grammar, mode, held, minput, applied, tries, nmut, lastGen>>
    /\ GenFrame

\* Generator::generate: an attempt succeeds and the loop breaks
GenerateOk ==
    /\ cpc = "generate"
    /\ LET res == Generator_generate(grammar, GenerateDepth)
       IN  \E s \in res.ok :
              /\ held' = s
              /\ lastGen' = Gen("generate", 0, GenerateDepth, res.underflow,
                                s.tree)
    /\ cpc' = "hold"
    /\ tries' = 0
    /\ UNCHANGED <<grammar, mode, minput, applied, nmut>>
    /\ GenFrame

\* Generator::generate: an attempt fails and the loop goes round
GenerateRetry ==
    /\ cpc = "generate"
    /\ Generator_generate(grammar, GenerateDepth).retry
    /\ tries' = Min(tries + 1, MaxTries)
    /\ UNCHANGED <<grammar, mode, cpc, held, minput, applied, nmut, lastGen>>
    /\ GenFrame

\* spawn_fuzzer, binary mode: a seed file becomes a Sample
SeedLoad ==
    /\ cpc = "start"
    /\ mode = "seeds"
    /\ \E content \in SeedFiles :
          held' = fold_into_sample(FromItem(Data(content)))
    /\ cpc' = "hold"
    /\ UNCHANGED <<grammar, mode, minput, applied, tries, nmut, lastGen>>
    /\ GenFrame

\* mutate_sample is called with the Sample the fuzzer holds
MutateStart ==
    /\ cpc = "hold"
    /\ nmut < MaxMutations
    /\ cpc' = "choose"
    /\ minput' = held
    /\ applied' = 0
    /\ tries' = 0
    /\ lastGen' = NoGen
    /\ UNCHANGED <<grammar, mode, held, nmut>>
    /\ GenFrame

\* faulty variant of ChooseTreeRegrow: the subtree is generated with the
\* whole depth_limit, whatever the depth of the node
ChooseTreeRegrowFull ==
    /\ cpc = "choose"
    /\ mode = "grammar"
    /\ \E path \in select_random_production(held.tree) :
          LET res == Generator_generate_of_type(
                        grammar, TreeDepth,
                        node_at(held.tree, path).item.rule_name, 10)
          IN  \E subtree \in res.ok :
                 /\ held' = TreeRegrow_mutate(held, path, subtree)
                 /\ lastGen' = Gen("TreeRegrow", Len(path), TreeDepth,
                                   res.underflow, FromItem(subtree))
    /\ applied' = applied + 1
    /\ cpc' = "returned"
    /\ UNCHANGED <<grammar, mode, minput, tries, nmut>>
    /\ GenFrame

\* mutate_sample, tree branch, TreeRegrow::mutate returns Ok. The usize
\* subtraction depth_limit - depth goes below zero for a node deeper than
\* depth_limit: with overflow checks (debug profile) it panics; without
\* them (release profile) it wraps to 2^64 + depth_limit - depth, a budget
\* above every tree of the model, under which the subtree is generated
\* (the generation is cut at the budget TreeDepth). A negative
\* depth_limit in lastGen stands for the wrapped value.
ChooseTreeRegrow ==
    /\ cpc = "choose"
    /\ mode = "grammar"
    /\ \E path \in select_random_production(held.tree) :
          LET depth == Len(path)
              remaining_depth == TreeDepth - depth
              rule_name == node_at(held.tree, path).item.rule_name
              res == Generator_generate_of_type(
                        grammar,
                        IF remaining_depth < 0 THEN TreeDepth
                        ELSE remaining_depth,
                        rule_name, 10)
          IN  \/ /\ remaining_depth < 0
                 /\ cpc' = "panicked"
                 /\ lastGen' = Gen("TreeRegrow", depth, remaining_depth,
                                   TRUE, FromItem(Data(<<>>)))
                 /\ UNCHANGED <<held, applied>>
              \/ \E subtree \in res.ok :
                    /\ held' = TreeRegrow_mutate(held, path, subtree)
                    /\ lastGen' = Gen("TreeRegrow", depth, remaining_depth,
                                      res.underflow \/ remaining_depth < 0,
                                      FromItem(subtree))
                    /\ applied' = applied + 1
                    /\ cpc' = "returned"
    /\ UNCHANGED <<grammar, mode, minput, tries, nmut>>
    /\ GenFrame

\* mutate_sample, tree branch, Resample::mutate returns Ok(generate())
ChooseResample ==
    /\ cpc = "choose"
    /\ mode = "grammar"
    /\ LET res == Generator_generate(grammar, TreeDepth)
       IN  \E s \in res.ok :
              /\ held' = s
              /\ lastGen' = Gen("Resample", 0, TreeDepth, res.underflow, s.tree)
    /\ applied' = applied + 1
    /\ cpc' = "returned"
    /\ UNCHANGED <<grammar, mode, minput, tries, nmut>>
    /\ GenFrame

\* TreeRegrow::mutate can return Err(sample): the tree has no production
\* node, or every roll draws a node whose regeneration fails (under the
\* wrapped budget when depth_limit - depth wraps)
TreeRegrow_fails(g, sample) ==
    \/ select_random_production(sample.tree) = {}
    \/ \E path \in select_random_production(sample.tree) :
          Generator_generate_of_type(
             g,
             IF TreeDepth - Len(path) < 0 THEN TreeDepth
             ELSE TreeDepth - Len(path),
             node_at(sample.tree, path).item.rule_name, 10).err

\* faulty variant of ChooseTreeErr: the failed mutator's Sample comes back
\* without its tree
ChooseTreeErrLost ==
    /\ cpc = "choose"
    /\ mode = "grammar"
    /\ TreeRegrow_fails(grammar, held)
    /\ held' = NoSample
    /\ tries' = Min(tries + 1, MaxTries)
    /\ UNCHANGED <<grammar, mode, cpc, minput, applied, nmut, lastGen>>
    /\ GenFrame

\* mutate_sample, tree branch, the mutator returns Err(res): sample = res
\* and the loop goes round
ChooseTreeErr ==
    /\ cpc = "choose"
    /\ mode = "grammar"
    /\ TreeRegrow_fails(grammar, held)
    /\ held' = held
    /\ tries' = Min(tries + 1, MaxTries)
    /\ UNCHANGED <<grammar, mode, cpc, minput, applied, nmut, lastGen>>
    /\ GenFrame

\* mutate_sample: gen_bool(0.7) gives false or there is no tree mutator,
\* the byte branch is taken
ChooseBinary ==
    /\ cpc = "choose"
    /\ cpc' = "binary"
    /\ UNCHANGED <<grammar, mode, held, minput, applied, tries, nmut, lastGen>>
    /\ GenFrame

\* mutate_sample, byte branch: the patch of a byte mutator is applied and
\* the loop breaks
MutateBinary ==
    /\ cpc = "binary"
    /\ \E patch \in binary_mutate(held.folded) :
          /\ held' = Sample_apply_patch(held, patch)
          /\ lastGen' = Patched(patch)
    /\ applied' = applied + 1
    /\ cpc' = "returned"
    /\ UNCHANGED <<grammar, mode, minput, tries, nmut>>
    /\ GenFrame

\* run_once goes on with the mutated Sample; the locals of the call are gone
MutateReturn ==
    /\ cpc = "returned"
    /\ cpc' = "hold"
    /\ nmut' = nmut + 1
    /\ minput' = NoSample
    /\ applied' = 0
    /\ tries' = 0
    /\ lastGen' = NoGen
    /\ UNCHANGED <<grammar, mode, held>>
    /\ GenFrame

NextGen ==
    \/ ParseOk
    \/ ParseErr
    \/ GenerateOk
    \/ GenerateRetry
    \/ SeedLoad
    \/ MutateStart
    \/ ChooseTreeRegrow
    \/ ChooseResample
    \/ ChooseTreeErr
    \/ ChooseBinary
    \/ MutateBinary
    \/ MutateReturn

SpecGen == InitGen /\ [][NextGen]_vars

\* the random choices are fair: an attempt of generate that can succeed
\* at every round does succeed, and gen_bool(0.7) does give false
SpecGenFair ==
    /\ InitGen
    /\ [][NextGen]_vars
    /\ WF_vars(GenerateOk)
    /\ WF_vars(ChooseBinary)

\* the Sample is the result of one application of the mutator named by
\* lastGen (none: a byte mutator, with the patch it returned) to the input
OneMutation(input, output) ==
    IF lastGen.by = "none"
    THEN /\ lastGen.patch \in binary_mutate(input.folded)
         /\ output = Sample_apply_patch(input, lastGen.patch)
    ELSE IF lastGen.by = "Resample"
    THEN output = fold_into_sample(lastGen.tree)
    ELSE \E path \in select_random_production(input.tree) :
            /\ Len(path) = lastGen.depth
            /\ output = TreeRegrow_mutate(input, path, lastGen.tree.item)

\* C22: mutate_sample always returns under fair random choice: every
\* call leaves the loop through a tree mutator's Ok or reaches the byte
\* branch, whose only step returns. While the loop goes round, the sample
\* is the one the call was given (a tree mutator that cannot mutate hands
\* it back unchanged); without tree mutators (seed mode) the byte branch
\* is the only step and the result is the patch of a byte mutator applied
\* to the input; the returned sample is the result of exactly one
\* successful mutator application to the input.
C22_MutateReturns ==
    /\ [](cpc \in {"choose", "binary"} =>
            /\ held = minput
            /\ applied = 0
            /\ MutateBytes_mutate(held.folded) # {})
    /\ [](cpc = "returned" =>
            /\ applied = 1
            /\ OneMutation(minput, held)
            /\ mode = "seeds" => lastGen.by = "none")
    /\ [][/\ cpc = "binary" => cpc' = "returned"
          /\ (cpc = "choose" /\ mode = "seeds") => cpc' = "binary"
         ]_vars
    /\ (cpc = "choose") ~> (cpc \in {"binary", "returned"})

\* TreeRegrow failed, then a byte mutator erased the first byte of a
\* generated sample
C22_Witness ==
    /\ cpc = "returned"
    /\ mode = "grammar"
    /\ tries = 1
    /\ lastGen.by = "none"
    /\ lastGen.patch = Erasure(0, 1)
    /\ minput.folded = <<1, 5>>
    /\ held.folded = <<5>>

\* C23: generation is depth-bounded. Every generated tree has at most as
\* many nested production applications as the depth limit it was
\* generated with, no usize subtraction goes below zero, and an
\* Identifier token at remaining depth 0 fails; for the trees of
\* generate, Resample and TreeRegrow, and for every rule of a validated
\* grammar at every depth limit up to TreeDepth.
C23_DepthBounded ==
    /\ lastGen.by # "none" =>
          /\ Nesting(lastGen.tree) <= lastGen.depth_limit
          /\ ~lastGen.underflow
    /\ cpc = "generate" =>
          \A rule \in DOMAIN grammar :
              /\ generate_token(grammar, Identifier(rule), 0)
                    = Outcome({}, TRUE, FALSE)
              /\ \A depth_limit \in 0..TreeDepth :
                    LET res == generate_production(grammar, rule, depth_limit)
                    IN  /\ ~res.underflow
                        /\ \A t \in res.ok : Nesting(t) <= depth_limit

\* Resample returned a tree of three nested productions under the depth
\* limit 5
C23_Witness ==
    /\ lastGen.by = "Resample"
    /\ lastGen.depth_limit = TreeDepth
    /\ Nesting(lastGen.tree) = 3
    /\ held.tree = lastGen.tree

\* C24: TreeRegrow replaces one production subtree at depth d by a
\* generated subtree of the same rule name under the budget
\* depth_limit - d. For every tree the fuzzer holds the budget of every
\* production node is at least zero, the subtraction never panics, and no
\* held tree nests deeper than depth_limit.
C24_RegrowWithinDepth ==
    /\ [](cpc # "panicked")
    /\ [](/\ Nesting(held.tree) <= TreeDepth
          /\ \A path \in select_random_production(held.tree) :
                TreeDepth - Len(path) >= 0)
    /\ [][(cpc = "choose" /\ lastGen'.by = "TreeRegrow") =>
            /\ lastGen'.depth_limit = TreeDepth - lastGen'.depth
            /\ lastGen'.depth_limit >= 0
            /\ \E path \in select_random_production(held.tree) :
                  /\ Len(path) = lastGen'.depth
                  /\ node_at(held.tree, path).item.rule_name
                        = lastGen'.tree.item.rule_name
                  /\ Structure(node_at(held'.tree, path))
                        = Structure(lastGen'.tree)
                  /\ Structure(replace_at(held'.tree, path,
                                          FromItem(Data(<<>>))))
                        = Structure(replace_at(held.tree, path,
                                               FromItem(Data(<<>>))))
         ]_vars

\* second call: an earlier mutation left a tree of three nested
\* productions, and its node at depth 2 was regrown under the budget
\* TreeDepth - 2 into a tree of four
C24_Witness ==
    /\ cpc = "returned"
    /\ nmut = 1
    /\ lastGen.by = "TreeRegrow"
    /\ lastGen.depth = 2
    /\ lastGen.depth_limit = TreeDepth - 2
    /\ Nesting(minput.tree) = 3
    /\ Nesting(held.tree) = 4

\* C30: for every grammar accepted by parse_grammar, Generator::generate
\* eventually returns a sample under fair random choice.
C30_GenerateReturns == (cpc = "generate") ~> (cpc = "hold")

====
